---- MODULE Spec2Model ----
(***************************************************************************)
(* node-adb-wrapper: the logcat byte pipeline.                             *)
(*                                                                         *)
(*   LineFeedTransform  (src/src/LineFeedTransform.ts)                     *)
(*   LogcatParser       (src/unnamed/part_000, Logcat.ts)                  *)
(*                                                                         *)
(* Buffers are sequences of bytes (0..255).  Source code indexes buffers   *)
(* from 0; the operators below keep the 0-based indices of the source and  *)
(* translate to the 1-based sequences of TLA+ internally.                  *)
(***************************************************************************)
EXTENDS Integers, Sequences, FiniteSets, TLC

(***************************************************************************)
(* Bounds of the model.                                                    *)
(***************************************************************************)
\* longest input fed to a stand-alone LineFeedTransform
MaxLfLen == 5

(***************************************************************************)
(* Program constants.                                                      *)
(***************************************************************************)
CR == 13
LF == 10
\* LineFeedTransform.ts:9
originalLineFeed == <<CR>>
\* LineFeedTransform.ts:13, the two values os.platform() selects between
replacedLineFeedWin32 == <<CR, CR, LF>>
replacedLineFeedPosix == <<CR, LF>>
Patterns == {replacedLineFeedPosix, replacedLineFeedWin32}

(***************************************************************************)
(* Buffer primitives (Node's Buffer, 0-based).                             *)
(***************************************************************************)
Min(a, b) == IF a < b THEN a ELSE b
Max(a, b) == IF a > b THEN a ELSE b

\* Buffer.slice(start, end): both ends clamped to the buffer, empty when
\* start >= end.
Slice(buf, start, end) ==
  LET s == Min(Max(start, 0), Len(buf))
      e == Min(Max(end, 0), Len(buf))
  IN  IF s >= e THEN <<>> ELSE SubSeq(buf, s + 1, e)

\* buf[i]: the byte, or -1 for JavaScript's undefined (index out of range).
Undefined == -1
At(buf, i) == IF i >= 0 /\ i < Len(buf) THEN buf[i + 1] ELSE Undefined

\* Buffer.indexOf(pattern, from): the least index >= from where the whole
\* pattern occurs, or -1.
MatchesAt(buf, pat, i) ==
  /\ i + Len(pat) <= Len(buf)
  /\ \A j \in 1..Len(pat) : buf[i + j] = pat[j]

IndexOf(buf, pat, from) ==
  LET hits == {i \in Max(from, 0)..(Len(buf) - Len(pat)) : MatchesAt(buf, pat, i)}
  IN  IF hits = {} THEN -1 ELSE CHOOSE i \in hits : \A k \in hits : i <= k

(***************************************************************************)
(* LineFeedTransform                                                       *)
(***************************************************************************)
\* A comparison that lets every suffix pass for a prefix of the pattern.
SuffixIsPrefixMut(target, pattern, index) == TRUE

\* The for loop of indexOfSubpattern: target[index..] is a prefix of pattern.
SuffixIsPrefix(target, pattern, index) ==
  \A j \in index..(Len(target) - 1) : At(target, j) = At(pattern, j - index)

RECURSIVE SubpatternFrom(_, _, _)
SubpatternFrom(target, pattern, index) ==
  IF index < Len(target)
  THEN IF SuffixIsPrefix(target, pattern, index)
       THEN index
       ELSE SubpatternFrom(target, pattern, index + 1)
  ELSE -1

\* No held-back suffix at all: the transform forgets a pattern that is split
\* across two chunks.
indexOfSubpatternMut(target, pattern) == -1

indexOfSubpattern(target, pattern) ==
  LET start == Len(target) - Len(pattern) + 1
  IN  SubpatternFrom(target, pattern, IF start < 0 THEN 0 ELSE start)

\* The while loop of _transform: everything pushed for the full patterns
\* found from lastSegmentStart on, and the lastSegmentStart it ends with.
RECURSIVE ReplaceLoop(_, _, _, _)
ReplaceLoop(chunk, pattern, lastSegmentStart, pushed) ==
  LET replacedLineFeedIndex == IndexOf(chunk, pattern, lastSegmentStart)
  IN  IF replacedLineFeedIndex # -1
      THEN ReplaceLoop(chunk, pattern, replacedLineFeedIndex + Len(pattern),
                       pushed \o Slice(chunk, lastSegmentStart, replacedLineFeedIndex)
                              \o originalLineFeed)
      ELSE [pushed |-> pushed, lastSegmentStart |-> lastSegmentStart]

\* _transform(chunk): what is pushed (concatenated) and the new
\* lastSuspiciousBytes; <<>> stands for null.
Transform(suspicious, data, pattern) ==
  LET chunk == suspicious \o data
      loop  == ReplaceLoop(chunk, pattern, 0, <<>>)
      lastSuspiciousBytesIndex == indexOfSubpattern(chunk, pattern)
  IN  IF loop.lastSegmentStart < Len(chunk)
      THEN IF lastSuspiciousBytesIndex # -1
           THEN [pushed |-> loop.pushed
                            \o Slice(chunk, loop.lastSegmentStart, lastSuspiciousBytesIndex),
                 suspicious |-> Slice(chunk, lastSuspiciousBytesIndex, Len(chunk))]
           ELSE [pushed |-> loop.pushed \o Slice(chunk, loop.lastSegmentStart, Len(chunk)),
                 suspicious |-> <<>>]
      ELSE [pushed |-> loop.pushed, suspicious |-> <<>>]

\* _flush() that pushes the held-back bytes and goes on holding them.
FlushKeepMut(suspicious) == [pushed |-> suspicious, suspicious |-> suspicious]

\* _flush() that forgets the held-back bytes.
FlushMut(suspicious) == [pushed |-> <<>>, suspicious |-> <<>>]

\* _flush(): the held-back bytes are pushed verbatim.
Flush(suspicious) == [pushed |-> suspicious, suspicious |-> <<>>]

(***************************************************************************)
(* LogcatParser: integer fields, the padding scan, the entry.              *)
(***************************************************************************)
\* Buffer.readUInt16LE(0), readUInt32LE(0), readInt32LE(0)
readUInt16LE(b) == b[1] + 256 * b[2]
readUInt32LE(b) == b[1] + 256 * b[2] + 65536 * b[3] + 16777216 * b[4]
readInt32LE(b) ==
  LET hi == IF b[4] >= 128 THEN b[4] - 256 ELSE b[4]
  IN  b[1] + 256 * b[2] + 65536 * b[3] + 16777216 * hi

\* Buffer.toString(): UTF-8 decoding, to a sequence of code points.  A byte
\* below 128 is its own code point; the model's payloads hold no other byte
\* than 255, which is never valid UTF-8 and decodes to U+FFFD.
toString(b) == [i \in 1..Len(b) |-> IF b[i] < 128 THEN b[i] ELSE 65533]

\* new Date(sec * 1000 + nsec / 1000000): the time value, a number of
\* milliseconds truncated towards zero.  It is kept as the pair <<s, ms>> of
\* value s * 1000 + ms with ms in 0..999, because sec * 1000 leaves the
\* checker's integers when sec is read from misaligned bytes.
Date(sec, nsec) ==
  LET q == nsec \div 1000000
      r == nsec - q * 1000000
      negative == IF sec <= -3 THEN TRUE
                  ELSE IF sec >= 3 THEN FALSE
                  ELSE sec * 1000 + q < 0
      ms == IF negative /\ r > 0 THEN q + 1 ELSE q
  IN  <<sec + (ms \div 1000), ms % 1000>>

\* The while(priority == 0) loop of asIterator, from its condition up to its
\* end or up to the read(len) inside it: the locals it leaves, and whether
\* the read is due.
RECURSIVE PaddingScan(_)
PaddingScan(l) ==
  IF l.priority = 0
  THEN LET next == [l EXCEPT !.priority = At(l.payload, l.priorityIndex),
                             !.priorityIndex = l.priorityIndex + 1]
       IN  IF next.priorityIndex >= next.len
           THEN [loc |-> next, read |-> TRUE]
           ELSE PaddingScan(next)
  ELSE [loc |-> l, read |-> FALSE]

\* if(id) logEntry.id = id: the entry's id, Undefined when the field is not set
EntryId(id) == IF id # Undefined /\ id # 0 THEN id ELSE Undefined

\* The entry with a msg that keeps the payload's terminating zero byte.
LogEntryMut(l) ==
  LET payload == l.payload
      found == IndexOf(payload, <<0>>, l.priorityIndex)
      separatorIndex == IF found < 0 THEN Len(payload) ELSE found
  IN  [pid |-> l.pid, tid |-> l.tid, sec |-> l.sec, nsec |-> l.nsec,
       time |-> Date(l.sec, l.nsec),
       priority |-> l.priority,
       tag |-> toString(Slice(payload, l.priorityIndex, separatorIndex)),
       msg |-> toString(Slice(payload, separatorIndex + 1, Len(payload))),
       id |-> EntryId(l.id)]

\* Lines 456-472: the entry built from the locals once the payload is whole.
LogEntry(l) ==
  LET payload == l.payload
      found == IndexOf(payload, <<0>>, l.priorityIndex)
      separatorIndex == IF found < 0 THEN Len(payload) ELSE found
      msgEnd == IF At(payload, Len(payload) - 1) = 0
                THEN Len(payload) - 1 ELSE Len(payload)
  IN  [pid |-> l.pid, tid |-> l.tid, sec |-> l.sec, nsec |-> l.nsec,
       time |-> Date(l.sec, l.nsec),
       priority |-> l.priority,
       tag |-> toString(Slice(payload, l.priorityIndex, separatorIndex)),
       msg |-> toString(Slice(payload, separatorIndex + 1, msgEnd)),
       id |-> EntryId(l.id)]

\* The locals of one iteration of the while loop, before anything is read.
NoLocals ==
  [len |-> 0, headerSize |-> 0, pid |-> 0, tid |-> 0, sec |-> 0, nsec |-> 0,
   id |-> Undefined, payload |-> <<>>, priorityIndex |-> 0, priority |-> Undefined,
   payloadAt |-> 0]

(***************************************************************************)
(* The input: frames as the device writes them.                            *)
(***************************************************************************)
\* the most padding bytes before a payload
MaxPad == 3
\* frames in a stream
MaxFrames == 2
\* streams that exist for a parser to be attached to
MaxSources == 3
\* streams a parser is attached to over the life that Spec and FairSpec follow
MaxLifeSources == 2

RECURSIVE Zeros(_)
Zeros(n) == IF n = 0 THEN <<>> ELSE <<0>> \o Zeros(n - 1)

U16LE(n) == <<n % 256, n \div 256>>

\* pid, tid, sec, nsec of the i-th frame of a stream: 1, 258, 3, 10^9 for the
\* odd ones and -1, -2^31, 256, -1 for the even ones.
FixedFields(i) ==
  IF i % 2 = 1
  THEN [pid |-> <<1, 0, 0, 0>>, tid |-> <<2, 1, 0, 0>>,
        sec |-> <<3, 0, 0, 0>>, nsec |-> <<0, 202, 154, 59>>]
  ELSE [pid |-> <<255, 255, 255, 255>>, tid |-> <<0, 0, 0, 128>>,
        sec |-> <<0, 1, 0, 0>>, nsec |-> <<255, 255, 255, 255>>]

\* payloads: the bytes (priority, tag, separator, message, terminator) and
\* what they stand for, as code points
Body(bytes, priority, tag, msg) ==
  [bytes |-> bytes, priority |-> priority, tag |-> tag, msg |-> msg]

PlainBody == Body(<<6, 116, 0, 109, 0>>, 6, <<116>>, <<109>>)

Bodies ==
  { Body(<<>>, Undefined, <<>>, <<>>),
    Body(<<4>>, 4, <<>>, <<>>),
    Body(<<4, 116>>, 4, <<116>>, <<>>),
    Body(<<4, 116, 0>>, 4, <<116>>, <<>>),
    Body(<<5, 116, 0, 109>>, 5, <<116>>, <<109>>),
    PlainBody,
    Body(<<3, 116, 0, CR, 109, 0>>, 3, <<116>>, <<CR, 109>>) }

\* id fields; the largest keeps the value within the checker's integers
IdFields == { <<0, 0, 0, 0>>, <<7, 0, 0, 0>>, <<255, 255, 255, 127>> }

Frame(headerSize, idField, pad, body) ==
  [headerSize |-> headerSize, id |-> idField, pad |-> pad, payload |-> body.bytes,
   priority |-> body.priority, tag |-> body.tag, msg |-> body.msg]

\* the frames a stream starts with: every header on one payload, and on the
\* oldest header every payload, the ones that have a priority byte behind
\* every amount of padding
FirstFrames ==
  {Frame(24, i, 0, PlainBody) : i \in IdFields}
  \cup {Frame(5, <<>>, 0, PlainBody)}
  \cup {Frame(0, <<>>, 0, b) : b \in Bodies}
  \cup {Frame(0, <<>>, k, b) : k \in 1..MaxPad, b \in {c \in Bodies : c.bytes # <<>>}}

\* the frame that follows
NextFrames ==
  { Frame(0, <<>>, 0, Body(<<5, 116, 0, 109>>, 5, <<116>>, <<109>>)) }

RECURSIVE FrameSeqs(_)
FrameSeqs(n) ==
  IF n = 1 THEN {<<f>> : f \in FirstFrames}
  ELSE {Append(q, f) : q \in FrameSeqs(n - 1), f \in NextFrames}

\* The bytes of the i-th frame f: len, headerSize, the four fixed fields, the
\* id when headerSize is 24, the padding (not counted in len), the payload.
Encode(f, i) ==
  U16LE(Len(f.payload)) \o U16LE(f.headerSize)
  \o FixedFields(i).pid \o FixedFields(i).tid
  \o FixedFields(i).sec \o FixedFields(i).nsec
  \o (IF f.headerSize = 24 THEN f.id ELSE <<>>)
  \o Zeros(f.pad) \o f.payload

RECURSIVE EncodeFrom(_, _)
EncodeFrom(fs, i) ==
  IF i > Len(fs) THEN <<>> ELSE Encode(fs[i], i) \o EncodeFrom(fs, i + 1)

\* What adb's shell does to the bytes on their way: the byte the transform
\* restores is sent as the corrupted sequence.
RECURSIVE Corrupt(_, _)
Corrupt(b, pattern) ==
  IF b = <<>> THEN <<>>
  ELSE (IF Head(b) = CR THEN pattern ELSE <<Head(b)>>) \o Corrupt(Tail(b), pattern)

\* The entry the i-th frame f stands for.
EntryOf(f, i) ==
  [pid |-> readInt32LE(FixedFields(i).pid), tid |-> readInt32LE(FixedFields(i).tid),
   sec |-> readInt32LE(FixedFields(i).sec), nsec |-> readInt32LE(FixedFields(i).nsec),
   time |-> Date(readInt32LE(FixedFields(i).sec), readInt32LE(FixedFields(i).nsec)),
   priority |-> f.priority, tag |-> f.tag, msg |-> f.msg,
   id |-> IF f.headerSize = 24 THEN readUInt32LE(f.id) ELSE Undefined]

(***************************************************************************)
(* State.                                                                  *)
(***************************************************************************)
VARIABLES
  \* os.platform()'s choice of the corrupted sequence (LineFeedTransform.ts:13)
  replacedLineFeed,
  \* a LineFeedTransform on its own: the bytes written to it, how many of
  \* them were delivered to _transform, its lastSuspiciousBytes, everything
  \* it pushed, and whether _flush ran
  lfInput, lfPos, lastSuspiciousBytes, lfPushed, lfFlushed,
  \* history: the offsets of lfInput at which one chunk ended and the next began
  lfCuts

lfVars == <<lfInput, lfPos, lastSuspiciousBytes, lfPushed, lfFlushed, lfCuts>>

VARIABLES
  \* the input: the frames written by the device (what the decoder is meant
  \* to find) and the bytes every source stream carries
  frames, stream,
  \* the source streams: bytes emitted so far, and whether 'end' was emitted
  pos, srcEnded,
  \* how many streams were handed to attachStream so far (each is a new one)
  attached,
  \* history: the stream attachStream attached last, 0 once detach() was
  \* called after it
  live,
  \* LogcatParser fields (part_000:211-222): this.input (0: undefined),
  \* this.transform with its LineFeedTransform state and the stream piped
  \* into it, the streams carrying this._onData / this._onEnd directly
  input, transform, listeners,
  bytesToRead, cursor, buffer, end,
  \* this.eventBarrier: the one waiter on 'readable'
  \*   "idle" no waiter, "waiting" pending, "notified" resolved,
  \*   "abortedEnd" / "abortedDetach" rejected; a settled waiter runs at
  \*   the next microtask (Resume)
  barrier,
  \* asIterator(noError, tryRecover): its arguments, its position, its local
  \* variables, the read() call in flight
  noError, tryRecover, pc, loc, rd,
  \* what asIterator() did: the entries yielded, the entries emitted to
  \* 'entry' listeners, how it ended and with which error, and the error the
  \* last read() threw
  records, emitted, outcome, error, readError,
  \* history: the number of bytes rollBuffer has dropped
  rolled,
  \* a second generator returned by asIterator() on the same parser: its own
  \* waiter on 'readable', position, local variables, read in flight and
  \* results (the fields of the parser are shared)
  second

srcVars == <<frames, stream, pos, srcEnded, attached, live>>
wiring  == <<input, transform, listeners>>
bufVars == <<bytesToRead, cursor, buffer, end, barrier>>
itVars  == <<noError, tryRecover, pc, loc, rd, records, emitted, outcome, error,
             readError, rolled, second>>
parserVars == <<srcVars, wiring, bufVars, itVars>>

VARIABLES
  \* one call of a method of ADBProcess (part_002): the method, its argument
  \* attempts, its local _attempts, where it stands, and how it settled
  adbOp, attempts, attemptsLeft, adbPc, adbResult,
  \* the state getDeviceState reported last
  deviceState,
  \* history: how often each helper was called
  calls,
  \* history: the names of the events the method emitted, in order
  adbEvents

VARIABLES
  \* one call of BasicADBProcess.waitFor (BasicADBProcess.ts:273-309): its
  \* locals fullfilled and t (tHandle: "null" or "handle"), the timer behind t
  \* ("none", "pending", "cleared", "fired"), the promise it returned
  \* ("none" before the call, "pending", "resolved" or the error it was
  \* rejected with)
  fullfilled, tHandle, timer, promise,
  \* history: how often proc.kill() and res / rej were called, and the events
  \* that happened, in order, each with the error it carried
  procKills, settleCalls, raceLog

raceVars == <<fullfilled, tHandle, timer, promise, procKills, settleCalls, raceLog>>

VARIABLES
  \* one LogcatProcess (part_000:18-119): its fields proc (0 while it is
  \* null or undefined, else the number of the child it holds) and err
  \* (procErr: "none" while the field is deleted)
  proc, procErr,
  \* every child start() spawned, in order: whether it still runs, its
  \* `killed` flag, whether its stdin was ended, how many 'error' events it
  \* emitted
  children,
  \* how the last start() ended ("none", "spawned", "AssertionError") and
  \* how many destroy() calls wait for 'exit' on the EventBarrier
  startResult, exitWaiters

logcatVars == <<proc, procErr, children, startResult, exitWaiters>>

adbVars == <<adbOp, attempts, attemptsLeft, adbPc, adbResult, deviceState, calls,
             adbEvents, raceVars, logcatVars>>

vars == <<replacedLineFeed, lfVars, parserVars, adbVars>>

(***************************************************************************)
(* A LineFeedTransform on its own (SpecLF).                                *)
(***************************************************************************)
LfAlphabet == {CR, LF, 65}

RECURSIVE SeqsUpTo(_, _)
SeqsUpTo(S, n) ==
  IF n = 0 THEN {<<>>}
  ELSE LET shorter == SeqsUpTo(S, n - 1)
       IN  shorter \cup {Append(q, x) : q \in {r \in shorter : Len(r) = n - 1}, x \in S}

\* The parser's variables while only a LineFeedTransform runs.
ParserUnused ==
  /\ frames = <<>> /\ stream = <<>> /\ attached = 0 /\ live = 0
  /\ pos = <<>> /\ srcEnded = <<>>
  /\ input = 0 /\ transform = [set |-> FALSE, suspicious |-> <<>>, from |-> 0]
  /\ listeners = {}
  /\ bytesToRead = 0 /\ cursor = 0 /\ buffer = <<>> /\ end = FALSE
  /\ barrier = "idle"
  /\ noError = FALSE /\ tryRecover = FALSE
  /\ pc = "idle" /\ loc = <<>> /\ rd = <<>>
  /\ records = <<>> /\ emitted = <<>>
  /\ outcome = "none" /\ error = "none" /\ readError = "none"
  /\ rolled = 0
  /\ second = <<>>

\* No method of ADBProcess is called.
NoCalls ==
  [root |-> 0, ensureDevice |-> 0, killServer |-> 0, waitFor |-> 0,
   getDeviceState |-> 0, reconnect |-> 0, waitForDevice |-> 0]

AdbUnused ==
  /\ adbOp = "none" /\ attempts = 0 /\ attemptsLeft = 0
  /\ adbPc = "none" /\ adbResult = "none" /\ deviceState = "none"
  /\ calls = NoCalls
  /\ adbEvents = <<>>
  /\ fullfilled = FALSE /\ tHandle = "null" /\ timer = "none" /\ promise = "none"
  /\ procKills = 0 /\ settleCalls = 0 /\ raceLog = <<>>
  /\ proc = 0 /\ procErr = "none" /\ children = <<>>
  /\ startResult = "none" /\ exitWaiters = 0

InitLF ==
  /\ AdbUnused
  /\ replacedLineFeed \in Patterns
  /\ lfInput \in SeqsUpTo(LfAlphabet, MaxLfLen)
  /\ lfPos = 0
  /\ lastSuspiciousBytes = <<>>
  /\ lfPushed = <<>>
  /\ lfFlushed = FALSE
  /\ lfCuts = {}
  /\ ParserUnused

\* stream.write(chunk): the next n bytes go through _transform
LfTransform(n) ==
  /\ ~lfFlushed
  /\ lfPos + n <= Len(lfInput)
  /\ LET r == Transform(lastSuspiciousBytes, Slice(lfInput, lfPos, lfPos + n), replacedLineFeed)
     IN  /\ lfPushed' = lfPushed \o r.pushed
         /\ lastSuspiciousBytes' = r.suspicious
  /\ lfPos' = lfPos + n
  /\ lfCuts' = IF lfPos + n < Len(lfInput) THEN lfCuts \cup {lfPos + n} ELSE lfCuts
  /\ UNCHANGED <<replacedLineFeed, lfInput, lfFlushed, parserVars, adbVars>>

\* stream.end(): _flush, once everything was written
LfFlush ==
  /\ ~lfFlushed
  /\ lfPos = Len(lfInput)
  /\ LET r == Flush(lastSuspiciousBytes)
     IN  /\ lfPushed' = lfPushed \o r.pushed
         /\ lastSuspiciousBytes' = r.suspicious
  /\ lfFlushed' = TRUE
  /\ UNCHANGED <<replacedLineFeed, lfInput, lfPos, lfCuts, parserVars, adbVars>>

NextLF ==
  \/ \E n \in 1..MaxLfLen : LfTransform(n)
  \/ LfFlush

SpecLF == InitLF /\ [][NextLF]_vars

(***************************************************************************)
(* LogcatParser: the buffer and the event barrier.                         *)
(*                                                                         *)
(* The operators below take and return the record M of the parser's and    *)
(* the iterator's state, so that the statements of one handler compose in  *)
(* the order the source runs them.                                         *)
(***************************************************************************)
M ==
  [input |-> input, transform |-> transform, listeners |-> listeners,
   bytesToRead |-> bytesToRead, cursor |-> cursor, buffer |-> buffer, end |-> end,
   barrier |-> barrier, pc |-> pc, loc |-> loc, rd |-> rd, records |-> records,
   emitted |-> emitted, outcome |-> outcome, error |-> error, readError |-> readError,
   rolled |-> rolled, second |-> second]

SetM(next) ==
  \E m \in {next} :
  /\ input' = m.input
  /\ transform' = m.transform
  /\ listeners' = m.listeners
  /\ bytesToRead' = m.bytesToRead
  /\ cursor' = m.cursor
  /\ buffer' = m.buffer
  /\ end' = m.end
  /\ barrier' = m.barrier
  /\ pc' = m.pc
  /\ loc' = m.loc
  /\ rd' = m.rd
  /\ records' = m.records
  /\ emitted' = m.emitted
  /\ outcome' = m.outcome
  /\ error' = m.error
  /\ readError' = m.readError
  /\ rolled' = m.rolled
  /\ second' = m.second

\* get bytesAvailable()
bytesAvailable(m) == Len(m.buffer) - m.cursor

\* EventBarrier.notify('readable'): a waiter, if it is pending, is resolved;
\* every waiter on the event is
notify(b) == IF b = "waiting" THEN "notified" ELSE b

\* EventBarrier.abort('readable', err): a waiter, if it is pending, is
\* rejected with err; every waiter on the event is
abort(b, err) == IF b = "waiting" THEN err ELSE b

clearBuffer(m) == [m EXCEPT !.bytesToRead = 0, !.cursor = 0, !.buffer = <<>>]

rollBuffer(m) ==
  [m EXCEPT !.buffer = Slice(m.buffer, m.cursor, Len(m.buffer)),
            !.cursor = 0,
            !.rolled = m.rolled + Min(m.cursor, Len(m.buffer))]

\* onData that wakes the reader as soon as any byte is there
onDataMut(m, data) ==
  LET grown == [m EXCEPT !.buffer = m.buffer \o data]
  IN  [grown EXCEPT !.bytesToRead = 0, !.barrier = notify(m.barrier),
                    !.second.barrier = notify(m.second.barrier)]

onData(m, data) ==
  LET grown == [m EXCEPT !.buffer = m.buffer \o data]
  IN  IF bytesAvailable(grown) >= m.bytesToRead
      THEN [grown EXCEPT !.bytesToRead = 0, !.barrier = notify(m.barrier),
                         !.second.barrier = notify(m.second.barrier)]
      ELSE grown

\* onEnd that sets the flag and wakes nobody
onEndMut(m) == [m EXCEPT !.end = TRUE]

onEnd(m) ==
  [m EXCEPT !.end = TRUE, !.barrier = abort(m.barrier, "abortedEnd"),
            !.second.barrier = abort(m.second.barrier, "abortedEnd")]

\* _read(size)
ReadNow(m, size) ==
  [m EXCEPT !.cursor = m.cursor + size,
            !.rd = [st |-> "data", size |-> size,
                    data |-> Slice(m.buffer, m.cursor, m.cursor + size)]]

\* read(size), called for the read at `label`, up to its await or its return
read(m, label, size) ==
  LET at == [m EXCEPT !.pc = label, !.readError = "none"]
  IN  IF bytesAvailable(at) < size
      THEN IF at.end
           THEN [at EXCEPT !.rd = [st |-> "InsufficientBytesError", size |-> size,
                                   data |-> <<>>]]
           ELSE [at EXCEPT !.bytesToRead = size,
                           !.barrier = "waiting",
                           !.rd = [st |-> "wait", size |-> size, data |-> <<>>]]
      ELSE ReadNow(at, size)

\* read(size) after its await, turning every rejection of the wait into
\* InsufficientBytesError
ResumedMut(m) ==
  LET woke == [m EXCEPT !.barrier = "idle"]
  IN  CASE m.barrier = "notified" -> ReadNow(woke, m.rd.size)
        [] m.barrier \in {"abortedEnd", "abortedDetach"} ->
             [woke EXCEPT !.rd = [st |-> "InsufficientBytesError", size |-> m.rd.size,
                                  data |-> <<>>]]

\* read(size) after its await: the waiter was resolved or rejected
Resumed(m) ==
  LET woke == [m EXCEPT !.barrier = "idle"]
  IN  CASE m.barrier = "notified" -> ReadNow(woke, m.rd.size)
        [] m.barrier = "abortedEnd" ->
             [woke EXCEPT !.rd = [st |-> "InsufficientBytesError", size |-> m.rd.size,
                                  data |-> <<>>]]
        [] m.barrier = "abortedDetach" ->
             [woke EXCEPT !.rd = [st |-> "StreamDetachedError", size |-> m.rd.size,
                                  data |-> <<>>]]

(***************************************************************************)
(* LogcatParser.asIterator                                                 *)
(***************************************************************************)
NoRead == [st |-> "none", size |-> 0, data |-> <<>>]

\* The end of asIterator: through break (line 479 clears the buffer), or
\* through the catch of line 476, which rethrows unless noError.
Break(m) ==
  [clearBuffer(m) EXCEPT !.pc = "done", !.rd = NoRead, !.outcome = "clean"]

\* The catch of asIterator that rethrows whatever noError is
ThrowMut(m, err) ==
  [m EXCEPT !.pc = "done", !.rd = NoRead, !.outcome = "thrown", !.error = err]

\* Lines 476-479: the catch rethrows unless noError, and only then is line
\* 479 reached.
Throw(m, err) ==
  IF noError
  THEN [clearBuffer(m) EXCEPT !.pc = "done", !.rd = NoRead, !.outcome = "swallowed",
                              !.error = err]
  ELSE [m EXCEPT !.pc = "done", !.rd = NoRead, !.outcome = "thrown", !.error = err]

\* The entry is yielded without having been emitted.
YieldMut(m) ==
  LET rolledM == rollBuffer(m)
      logEntry == LogEntry(m.loc)
  IN  [rolledM EXCEPT !.pc = "yielded", !.rd = NoRead,
                      !.records = Append(m.records, logEntry)]

\* Lines 455-474: roll, build the entry, emit it, yield it.
Yield(m) ==
  LET rolledM == rollBuffer(m)
      logEntry == LogEntry(m.loc)
  IN  [rolledM EXCEPT !.pc = "yielded", !.rd = NoRead,
                      !.emitted = Append(m.emitted, logEntry),
                      !.records = Append(m.records, logEntry)]

\* Lines 451-454, after the padding scan
AfterScan(m) ==
  IF m.loc.priorityIndex > 1
  THEN read(m, "pad", m.loc.priorityIndex - 1)
  ELSE Yield(m)

\* Lines 444-450, from the loop's condition
Scan(m) ==
  LET s == PaddingScan(m.loc)
      scanned == [m EXCEPT !.loc = s.loc]
  IN  IF s.read THEN read(scanned, "scan", s.loc.len) ELSE AfterScan(scanned)

\* The id is read for every header size
AfterNsecMut(m) == read(m, "id", 4)

\* Lines 435-440, once nsec is read
AfterNsec(m) ==
  IF m.loc.headerSize = 24
  THEN read(m, "id", 4)
  ELSE read([m EXCEPT !.loc.payloadAt = m.cursor], "payload", m.loc.len)

\* An invalid header size always throws
InvalidHeaderMut(m) == Throw(m, "InvalidHeaderSize")

\* Lines 405-411, for a headerSize that is neither 0 nor 24
InvalidHeader(m) ==
  IF tryRecover THEN Break(clearBuffer(m)) ELSE Throw(m, "InvalidHeaderSize")

\* The loop's condition without its second half: while(!this.end)
LoopHeadMut(m) ==
  IF ~m.end
  THEN read([m EXCEPT !.loc = NoLocals], "len", 2)
  ELSE Break(m)

\* The loop's condition (line 390) and, inside, the call of readUInt16
LoopHead(m) ==
  IF ~m.end \/ bytesAvailable(m) # 0
  THEN read([m EXCEPT !.loc = NoLocals], "len", 2)
  ELSE Break(m)

\* What asIterator does with the bytes a read returned, up to the next read,
\* yield or end.  An integer read from fewer bytes than its width throws a
\* RangeError.
Continue(m) ==
  LET d == m.rd.data
      short == Len(d) < m.rd.size
  IN  CASE m.pc \in {"len", "hs", "pid", "tid", "sec", "nsec", "id"} /\ short ->
             Throw([m EXCEPT !.readError = "RangeError"], "RangeError")
        [] m.pc = "len" /\ ~short ->
             read([m EXCEPT !.loc.len = readUInt16LE(d)], "hs", 2)
        [] m.pc = "hs" /\ ~short ->
             LET headerSize == readUInt16LE(d)
                 got == [m EXCEPT !.loc.headerSize = headerSize]
             IN  IF headerSize # 24 /\ headerSize # 0
                 THEN InvalidHeader(got)
                 ELSE read(got, "pid", 4)
        [] m.pc = "pid" /\ ~short ->
             read([m EXCEPT !.loc.pid = readInt32LE(d)], "tid", 4)
        [] m.pc = "tid" /\ ~short ->
             read([m EXCEPT !.loc.tid = readInt32LE(d)], "sec", 4)
        [] m.pc = "sec" /\ ~short ->
             read([m EXCEPT !.loc.sec = readInt32LE(d)], "nsec", 4)
        [] m.pc = "nsec" /\ ~short ->
             AfterNsec([m EXCEPT !.loc.nsec = readInt32LE(d)])
        [] m.pc = "id" /\ ~short ->
             read([m EXCEPT !.loc.id = readUInt32LE(d), !.loc.payloadAt = m.cursor],
                  "payload", m.loc.len)
        [] m.pc = "payload" ->
             Scan([m EXCEPT !.loc.payload = d,
                            !.loc.priorityIndex = 1,
                            !.loc.priority = At(d, 0)])
        [] m.pc = "scan" ->
             Scan([m EXCEPT !.loc.payload = m.loc.payload \o d])
        [] m.pc = "pad" ->
             Yield([m EXCEPT !.loc.payload = m.loc.payload \o d])

\* What asIterator does with the error a read threw: the catch around the
\* length read (lines 397-400) ends the loop, everything else is thrown on.
Caught(m) ==
  LET e == m.rd.st
      failed == [m EXCEPT !.readError = e]
  IN  IF m.pc = "len" /\ e = "InsufficientBytesError" /\ bytesAvailable(m) = 0
      THEN Break(failed)
      ELSE Throw(failed, e)

\* One run of asIterator from the moment the awaited read settles.
Settled(m) ==
  LET r == IF m.rd.st = "wait" THEN Resumed(m) ELSE m
  IN  IF r.rd.st = "data" THEN Continue(r) ELSE Caught(r)

(***************************************************************************)
(* LogcatParser: attachStream, detach and the streams' events.             *)
(***************************************************************************)
Sources == 1..MaxSources

NoTransform == [set |-> FALSE, suspicious |-> <<>>, from |-> 0]

\* detach() that leaves a suspended read alone
detachMut(m) ==
  IF m.transform.set
  THEN [m EXCEPT !.transform.from = 0]
  ELSE [m EXCEPT !.listeners = m.listeners \ {m.input}]

\* detach() that clears the buffer the way attachStream does
detachClearMut(m) ==
  LET aborted == [clearBuffer(m) EXCEPT
                    !.barrier = abort(m.barrier, "abortedDetach"),
                    !.second.barrier = abort(m.second.barrier, "abortedDetach")]
  IN  IF m.transform.set
      THEN [aborted EXCEPT !.transform.from = 0]
      ELSE [aborted EXCEPT !.listeners = m.listeners \ {m.input}]

\* detach(): the waiter is aborted; with a transform, this.input is unpiped
\* from it and the transform loses the listeners; without, this.input loses
\* them.
detach(m) ==
  LET aborted == [m EXCEPT !.barrier = abort(m.barrier, "abortedDetach"),
                           !.second.barrier = abort(m.second.barrier, "abortedDetach")]
  IN  IF m.transform.set
      THEN [aborted EXCEPT !.transform.from = 0]
      ELSE [aborted EXCEPT !.listeners = m.listeners \ {m.input}]

\* attachStream(s, fixLineFeeds)
attachStream(m, s, fixLineFeeds) ==
  LET detached == detach([clearBuffer(m) EXCEPT !.end = FALSE])
  IN  IF fixLineFeeds
      THEN [detached EXCEPT !.input = s,
                            !.transform = [set |-> TRUE, suspicious |-> <<>>, from |-> s]]
      ELSE [detached EXCEPT !.input = s, !.listeners = detached.listeners \cup {s}]

\* A stream has somewhere to send its bytes.
Flowing(s) == s \in listeners \/ (transform.from = s)

\* The 'data' handlers a chunk of stream s reaches: this._onData on the
\* stream itself, and on the transform the stream is piped into, once for
\* all that the transform pushes.
Delivered(m, s, chunk) ==
  LET direct == IF s \in m.listeners THEN onData(m, chunk) ELSE m
      t == Transform(m.transform.suspicious, chunk, replacedLineFeed)
      held == [direct EXCEPT !.transform.suspicious = t.suspicious]
  IN  IF m.transform.from = s
      THEN IF t.pushed # <<>> THEN onData(held, t.pushed) ELSE held
      ELSE direct

\* The 'end' handlers the end of stream s reaches; a piped transform is
\* flushed first.
Ended(m, s) ==
  LET direct == IF s \in m.listeners THEN onEnd(m) ELSE m
      t == Flush(m.transform.suspicious)
      held == [direct EXCEPT !.transform.suspicious = t.suspicious]
      flushed == IF t.pushed # <<>> THEN onData(held, t.pushed) ELSE held
  IN  IF m.transform.from = s THEN onEnd(flushed) ELSE direct

\* stream s emits its next n bytes
SourceData(s, n) ==
  /\ Flowing(s)
  /\ ~srcEnded[s]
  /\ pos[s] + n <= Len(stream)
  /\ SetM(Delivered(M, s, Slice(stream, pos[s], pos[s] + n)))
  /\ pos' = [pos EXCEPT ![s] = pos[s] + n]
  /\ UNCHANGED <<replacedLineFeed, lfVars, adbVars, frames, stream, srcEnded, attached, live,
                 noError, tryRecover>>

\* stream s ends
SourceEnd(s) ==
  /\ Flowing(s)
  /\ ~srcEnded[s]
  /\ SetM(Ended(M, s))
  /\ srcEnded' = [srcEnded EXCEPT ![s] = TRUE]
  /\ UNCHANGED <<replacedLineFeed, lfVars, adbVars, frames, stream, pos, attached, live,
                 noError, tryRecover>>

\* attachStream(input, fixLineFeeds) is called, input being a stream not
\* used before
AttachStream(fixLineFeeds) ==
  /\ attached < MaxSources
  /\ attached' = attached + 1
  /\ live' = attached + 1
  /\ SetM(attachStream(M, attached + 1, fixLineFeeds))
  /\ UNCHANGED <<replacedLineFeed, lfVars, adbVars, frames, stream, pos, srcEnded,
                 noError, tryRecover>>

\* detach() is called
Detach ==
  /\ SetM(detach(M))
  /\ live' = 0
  /\ UNCHANGED <<replacedLineFeed, lfVars, adbVars, frames, stream, pos, srcEnded, attached,
                 noError, tryRecover>>

\* The consumer calls asIterator(ne, tr) and pulls the first entry.
Start(ne, tr) ==
  /\ pc = "idle"
  /\ noError' = ne
  /\ tryRecover' = tr
  /\ SetM(LoopHead(M))
  /\ UNCHANGED <<replacedLineFeed, lfVars, adbVars, srcVars>>

\* The consumer pulls the next entry.
Pull ==
  /\ pc = "yielded"
  /\ SetM(LoopHead(M))
  /\ UNCHANGED <<replacedLineFeed, lfVars, adbVars, srcVars, noError, tryRecover>>

\* The generator that has not run yet.
NoSecond ==
  [barrier |-> "idle", pc |-> "idle", loc |-> NoLocals, rd |-> NoRead,
   records |-> <<>>, outcome |-> "none", error |-> "none", readError |-> "none"]

\* The parser as the other generator sees it: what belongs to a generator
\* (its waiter, position, locals, read in flight, results) changes places,
\* what belongs to the parser is the same for both.
Swap(m) ==
  [m EXCEPT !.barrier = m.second.barrier, !.pc = m.second.pc, !.loc = m.second.loc,
            !.rd = m.second.rd, !.records = m.second.records,
            !.outcome = m.second.outcome, !.error = m.second.error,
            !.readError = m.second.readError,
            !.second = [barrier |-> m.barrier, pc |-> m.pc, loc |-> m.loc,
                        rd |-> m.rd, records |-> m.records, outcome |-> m.outcome,
                        error |-> m.error, readError |-> m.readError]]

\* The consumer calls asIterator() once more, with the same arguments, and
\* pulls the first entry of the new generator.
SecondStart ==
  /\ pc # "idle"
  /\ second.pc = "idle"
  /\ SetM(Swap(LoopHead(Swap(M))))
  /\ UNCHANGED <<replacedLineFeed, lfVars, adbVars, srcVars, noError, tryRecover>>

\* The consumer pulls the next entry of the second generator.
SecondPull ==
  /\ second.pc = "yielded"
  /\ SetM(Swap(LoopHead(Swap(M))))
  /\ UNCHANGED <<replacedLineFeed, lfVars, adbVars, srcVars, noError, tryRecover>>

\* The microtask that continues the second generator once its read settled.
SecondResume ==
  /\ second.pc \notin {"idle", "yielded", "done"}
  /\ second.rd.st # "wait" \/ second.barrier \in {"notified", "abortedEnd", "abortedDetach"}
  /\ SetM(Swap(Settled(Swap(M))))
  /\ UNCHANGED <<replacedLineFeed, lfVars, adbVars, srcVars, noError, tryRecover>>

\* The microtask that continues asIterator once the read it awaits settled.
Resume ==
  /\ pc \notin {"idle", "yielded", "done"}
  /\ rd.st # "wait" \/ barrier \in {"notified", "abortedEnd", "abortedDetach"}
  /\ SetM(Settled(M))
  /\ UNCHANGED <<replacedLineFeed, lfVars, adbVars, srcVars, noError, tryRecover>>

(***************************************************************************)
(* Specifications.                                                         *)
(***************************************************************************)
\* The parser before its constructor calls attachStream, no iterator started.
Blank ==
  [input |-> 0, transform |-> NoTransform, listeners |-> {},
   bytesToRead |-> 0, cursor |-> 0, buffer |-> <<>>, end |-> FALSE,
   barrier |-> "idle", pc |-> "idle", loc |-> NoLocals, rd |-> NoRead,
   records |-> <<>>, emitted |-> <<>>, outcome |-> "none", error |-> "none",
   readError |-> "none", rolled |-> 0, second |-> NoSecond]

IsM(m) ==
  /\ input = m.input
  /\ transform = m.transform
  /\ listeners = m.listeners
  /\ bytesToRead = m.bytesToRead
  /\ cursor = m.cursor
  /\ buffer = m.buffer
  /\ end = m.end
  /\ barrier = m.barrier
  /\ pc = m.pc
  /\ loc = m.loc
  /\ rd = m.rd
  /\ records = m.records
  /\ emitted = m.emitted
  /\ outcome = m.outcome
  /\ error = m.error
  /\ readError = m.readError
  /\ rolled = m.rolled
  /\ second = m.second

\* The parser as new LogcatParser(input, fixLineFeeds) leaves it, input being
\* stream 1.
Constructed(fixLineFeeds) ==
  /\ attached = 1
  /\ live = 1
  /\ IsM(attachStream(Blank, 1, fixLineFeeds))
  /\ noError = FALSE /\ tryRecover = FALSE
  /\ pos = [s \in Sources |-> 0]
  /\ srcEnded = [s \in Sources |-> FALSE]

LfUnused ==
  /\ lfInput = <<>> /\ lfPos = 0 /\ lastSuspiciousBytes = <<>>
  /\ lfPushed = <<>> /\ lfFlushed = FALSE /\ lfCuts = {}

HasCR(fs) == \E i \in 1..Len(fs) : \E j \in 1..Len(fs[i].payload) : fs[i].payload[j] = CR

HasInvalidHeader(fs) == \E i \in 1..Len(fs) : fs[i].headerSize \notin {0, 24}

\* Decoding one stream of frames: one source, attached by the constructor.
\* Frames that hold the byte the transform restores are sent through either
\* corrupted sequence with fixLineFeeds, and as they are without; on the
\* other frames the transform changes nothing and the constructor's default
\* (fixLineFeeds = true) is taken.
InitDecode ==
  /\ LfUnused
  /\ AdbUnused
  /\ replacedLineFeed \in Patterns
  /\ frames \in FrameSeqs(MaxFrames)
  /\ \E fix \in BOOLEAN :
       /\ IF HasCR(frames)
          THEN fix \/ replacedLineFeed = replacedLineFeedPosix
          ELSE fix /\ replacedLineFeed = replacedLineFeedPosix
       /\ stream = IF fix THEN Corrupt(EncodeFrom(frames, 1), replacedLineFeed)
                          ELSE EncodeFrom(frames, 1)
       /\ Constructed(fix)

\* asIterator's arguments: tryRecover is read at an invalid header size only
\* (line 406), and is left at its default on the streams that have none.
Arguments ==
  {a \in BOOLEAN \X BOOLEAN : a[2] => HasInvalidHeader(frames)}

NextDecode ==
  \/ \E n \in 1..Len(stream) : SourceData(1, n)
  \/ SourceEnd(1)
  \/ \E a \in Arguments : Start(a[1], a[2])
  \/ Pull
  \/ Resume

SpecDecode == InitDecode /\ [][NextDecode]_vars

\* The parser over its life: streams are attached and detached while they
\* emit and while asIterator runs.  Every stream carries the same frame: one
\* of the newer header, one of the oldest with a padding byte, or one with an
\* invalid header size and a one-byte payload.
LifeFrames ==
  { <<Frame(24, <<7, 0, 0, 0>>, 0, PlainBody)>>,
    <<Frame(0, <<>>, 1, Body(<<5, 116, 0, 109>>, 5, <<116>>, <<109>>))>>,
    <<Frame(5, <<>>, 0, Body(<<4>>, 4, <<>>, <<>>))>> }

Init ==
  /\ LfUnused
  /\ AdbUnused
  /\ replacedLineFeed = replacedLineFeedPosix
  /\ frames \in LifeFrames
  /\ stream = EncodeFrom(frames, 1)
  /\ \E fix \in BOOLEAN : Constructed(fix)

\* A stream emits its bytes three at a time, or all of them at once.
LifeChunks == {3, Len(stream)}

Next ==
  \/ \E s \in Sources : \E n \in LifeChunks : SourceData(s, n)
  \/ \E s \in Sources : SourceEnd(s)
  \/ attached < MaxLifeSources /\ \E fix \in BOOLEAN : AttachStream(fix)
  \/ Detach
  \/ \E a \in Arguments : Start(a[1], a[2])
  \/ Pull
  \/ Resume

Spec == Init /\ [][Next]_vars

\* The same life with progress: a settled promise's continuation is a
\* microtask, so a read whose wait was settled does resume.  The stream is one
\* short frame, emitted eight bytes at a time or all at once.
FairFrames == { <<Frame(0, <<>>, 0, Body(<<5>>, 5, <<>>, <<>>))>> }

InitFair ==
  /\ LfUnused
  /\ AdbUnused
  /\ replacedLineFeed = replacedLineFeedPosix
  /\ frames \in FairFrames
  /\ stream = EncodeFrom(frames, 1)
  /\ \E fix \in BOOLEAN : Constructed(fix)

FairChunks == {8, Len(stream)}

NextFair ==
  \/ \E s \in Sources : \E n \in FairChunks : SourceData(s, n)
  \/ \E s \in Sources : SourceEnd(s)
  \/ attached < MaxLifeSources /\ \E fix \in BOOLEAN : AttachStream(fix)
  \/ Detach
  \/ \E a \in Arguments : Start(a[1], a[2])
  \/ Pull
  \/ Resume

FairSpec == InitFair /\ [][NextFair]_vars /\ WF_vars(Resume)

\* One source that ends, one consumer that keeps pulling: the short frame, a
\* frame behind three zero bytes, or a frame whose payload is one zero byte.
ProgressFrames ==
  FairFrames
  \cup { <<Frame(0, <<>>, 3, Body(<<4>>, 4, <<>>, <<>>))>>,
         <<Frame(0, <<>>, 0, Body(<<0>>, Undefined, <<>>, <<>>))>> }

InitProgress ==
  /\ LfUnused
  /\ AdbUnused
  /\ replacedLineFeed = replacedLineFeedPosix
  /\ frames \in ProgressFrames
  /\ stream = EncodeFrom(frames, 1)
  /\ \E fix \in BOOLEAN : Constructed(fix)

\* the sizes of the chunks: pieces that cut through the fields, or the rest
\* of the stream at once
ProgressChunks == {n \in {3, 5, Len(stream) - pos[1]} : n >= 1}

NextProgress ==
  \/ \E n \in ProgressChunks : SourceData(1, n)
  \/ SourceEnd(1)
  \/ \E a \in Arguments : Start(a[1], a[2])
  \/ Pull
  \/ Resume

\* A settled wait is continued by a microtask; the consumer starts and keeps
\* pulling; the source does end.
ProgressSpec ==
  /\ InitProgress /\ [][NextProgress]_vars
  /\ WF_vars(Resume)
  /\ WF_vars(Pull)
  /\ WF_vars(\E a \in Arguments : Start(a[1], a[2]))
  /\ WF_vars(SourceEnd(1))

\* The short frame again, for a parser whose stream is replaced as often as
\* there are streams.
NextSwap ==
  \/ \E s \in Sources : \E n \in FairChunks : SourceData(s, n)
  \/ \E s \in Sources : SourceEnd(s)
  \/ \E fix \in BOOLEAN : AttachStream(fix)
  \/ Detach
  \/ \E a \in Arguments : Start(a[1], a[2])
  \/ Pull
  \/ Resume

SpecSwap == InitFair /\ [][NextSwap]_vars

\* The short frame once more, read by two generators of the same parser
\* from the stream the constructor attached.
NextTwo ==
  \/ \E s \in Sources : \E n \in FairChunks : SourceData(s, n)
  \/ \E s \in Sources : SourceEnd(s)
  \/ Detach
  \/ \E a \in Arguments : Start(a[1], a[2])
  \/ Pull
  \/ Resume
  \/ SecondStart
  \/ SecondPull
  \/ SecondResume

SpecTwo == InitFair /\ [][NextTwo]_vars

(***************************************************************************)
(* Claims about decoding one stream (SpecDecode).                          *)
(***************************************************************************)
\* the bytes of frame i as stream 1 carries them
WireLen(i) ==
  Len(IF transform.set THEN Corrupt(Encode(frames[i], i), replacedLineFeed)
                       ELSE Encode(frames[i], i))

RECURSIVE FrameEnd(_)
FrameEnd(i) == IF i = 0 THEN 0 ELSE FrameEnd(i - 1) + WireLen(i)

\* the length of frame i as the parser is meant to consume it
RECURSIVE DecodedEnd(_)
DecodedEnd(i) == IF i = 0 THEN 0 ELSE DecodedEnd(i - 1) + Len(Encode(frames[i], i))

\* Stream 1 ended after exactly its first j frames.
EndedAfter(j) == srcEnded[1] /\ pos[1] = FrameEnd(j)

\* Stream 1 ended inside its frame j: some of its bytes came, not the last.
EndedInside(j) ==
  srcEnded[1] /\ FrameEnd(j - 1) < pos[1] /\ pos[1] < FrameEnd(j)

\* A frame as the format lays it out: a known header size, and len bytes of
\* payload right behind the header.
WellFormed(f) == f.headerSize \in {0, 24} /\ f.pad = 0

\* asIterator run to its end without ever having to wait.
RECURSIVE RunToEnd(_)
RunToEnd(m) ==
  IF m.pc = "done" THEN m
  ELSE IF m.pc \in {"idle", "yielded"} THEN RunToEnd(LoopHead(m))
  ELSE RunToEnd(Settled(m))

\* The same bytes delivered as one single chunk, then the end, to a parser
\* constructed alike; asIterator is pulled to its end afterwards.
SingleChunkRun(bytes) ==
  LET fresh == attachStream(Blank, 1, transform.set)
      fed == IF bytes = <<>> THEN fresh ELSE Delivered(fresh, 1, bytes)
  IN  RunToEnd(Ended(fed, 1))

\* C1: for every stream of N well-formed frames and every way of splitting
\* it into chunks, asIterator pulled to the end of the stream yields exactly
\* N entries, the entries (and the way the sequence ends) that the same
\* stream yields when it is delivered as one single chunk.  The second
\* conjunct holds of every stream, well-formed or not.
C1_ChunkingYieldsSameEntries ==
  (pc = "done" /\ srcEnded[1]) =>
    LET one == SingleChunkRun(Slice(stream, 0, pos[1]))
    IN  /\ \A j \in 0..Len(frames) :
             (EndedAfter(j) /\ \A i \in 1..j : WellFormed(frames[i])) =>
               /\ Len(records) = j
               /\ outcome = "clean"
        /\ records = one.records
        /\ outcome = one.outcome
        /\ error = one.error

\* C1 witness: two well-formed frames, the second header variant first,
\* arrived in pieces that made a read wait inside a field, and both entries
\* were yielded.
C1_Witness ==
  /\ pc = "done" /\ EndedAfter(2)
  /\ WellFormed(frames[1]) /\ WellFormed(frames[2])
  /\ frames[1].headerSize = 24
  /\ Len(records) = 2
  /\ records[1] = EntryOf(frames[1], 1)
  /\ records[2] = EntryOf(frames[2], 2)

\* C2: a frame whose payload of len >= 1 bytes comes behind k >= 1 zero
\* bytes is decoded to the priority, tag and msg of the frame without the
\* padding, having consumed exactly its own bytes, so that the next frame is
\* decoded from its own first byte.
C2_PaddingTransparent ==
  (Len(records) >= 1 /\ WellFormed([frames[1] EXCEPT !.pad = 0])
     /\ frames[1].pad >= 1 /\ Len(frames[1].payload) >= 1) =>
    /\ records[1].priority = frames[1].priority
    /\ records[1].tag = frames[1].tag
    /\ records[1].msg = frames[1].msg
    /\ rolled >= DecodedEnd(1)
    /\ Len(records) = 1 => rolled = DecodedEnd(1)
    /\ Len(records) >= 2 => records[2] = EntryOf(frames[2], 2)

\* C3: the entry of a frame whose headerSize is 24 carries an id, the
\* unsigned value of the four bytes behind nsec, whatever that value is.
C3_IdAlwaysPresent ==
  (Len(records) >= 1 /\ frames[1].headerSize = 24) =>
    /\ records[1].id # Undefined
    /\ records[1].id = readUInt32LE(frames[1].id)

\* C4: the entry of a frame whose headerSize is 0 has no id, and the payload
\* is read 16 bytes behind the headerSize field, that is 20 bytes into the
\* frame: no id bytes are read.
C4_NoIdForHeaderSizeZero ==
  /\ (pc \in {"payload", "scan", "pad"} /\ loc.headerSize = 0) => loc.payloadAt = 20
  /\ (pc \in {"payload", "scan", "pad"} /\ loc.headerSize = 0) => loc.id = Undefined
  /\ \A i \in 1..Len(records) :
       (i <= Len(frames) /\ frames[i].headerSize = 0
          /\ \A j \in 1..i : WellFormed(frames[j])) =>
         /\ records[i].id = Undefined
         /\ records[i] = EntryOf(frames[i], i)

\* C4 witness: a frame with headerSize 0 that follows a frame with
\* headerSize 24 was decoded, without an id.
C4_Witness ==
  /\ Len(records) = 2
  /\ frames[1].headerSize = 24 /\ frames[2].headerSize = 0
  /\ records[1].id = 7
  /\ records[2].id = Undefined
  /\ records[2] = EntryOf(frames[2], 2)

\* C7: when the stream ends inside a frame, behind well-formed frames,
\* asIterator yields no entry for that frame; it throws
\* InsufficientBytesError, or with noError ends without an error reaching the
\* consumer.
C7_TruncationYieldsNoEntry ==
  \A j \in 1..Len(frames) :
    (EndedInside(j) /\ frames[j].headerSize \in {0, 24}
       /\ \A i \in 1..(j - 1) : WellFormed(frames[i])) =>
      /\ Len(records) <= j - 1
      /\ pc = "done" =>
           /\ Len(records) = j - 1
           /\ error = "InsufficientBytesError"
           /\ outcome = IF noError THEN "swallowed" ELSE "thrown"

\* The first frame has an invalid header size and asIterator has read it.
InvalidHeaderRead ==
  /\ frames[1].headerSize \notin {0, 24}
  /\ pc = "done"
  /\ loc.headerSize = frames[1].headerSize

\* C8: at a headerSize that is neither 0 nor 24, asIterator with tryRecover
\* drops every buffered byte and ends without an error and without an
\* entry; without tryRecover (and without noError) it throws the invalid
\* header size error, without an entry.
C8_InvalidHeaderSize ==
  /\ [](InvalidHeaderRead =>
          /\ records = <<>>
          /\ tryRecover => (outcome = "clean" /\ error = "none")
          /\ (~tryRecover /\ ~noError) =>
               (outcome = "thrown" /\ error = "InvalidHeaderSize"))
  /\ [][(pc # "done" /\ InvalidHeaderRead' /\ tryRecover) =>
          (buffer' = <<>> /\ cursor' = 0)]_vars

\* C8 witness: recovery ended the sequence while bytes behind the invalid
\* header were buffered.
C8_Witness ==
  /\ InvalidHeaderRead /\ tryRecover
  /\ outcome = "clean" /\ records = <<>>
  /\ pos[1] > 4 /\ buffer = <<>>


(***************************************************************************)
(* Claims about LineFeedTransform.                                         *)
(***************************************************************************)
\* The whole input written as one chunk, then end(): everything pushed.
SingleChunkOutput(bytes, pattern) ==
  LET r == Transform(<<>>, bytes, pattern)
  IN  r.pushed \o Flush(r.suspicious).pushed

\* Some chunk boundary fell strictly inside an occurrence of the pattern.
PatternWasSplit ==
  \E c \in lfCuts : \E i \in 0..(Len(lfInput) - 1) :
    /\ MatchesAt(lfInput, replacedLineFeed, i)
    /\ i < c /\ c < i + Len(replacedLineFeed)

\* C5: for every input and every split of it into chunks, the bytes pushed
\* by the _transform calls and the final _flush, concatenated, are the bytes
\* pushed when the same input is written as one single chunk.
C5_ChunkingInvisible ==
  lfFlushed => lfPushed = SingleChunkOutput(lfInput, replacedLineFeed)

\* C5 witness: a Win32 pattern was split leaving one byte in the first chunk,
\* the stream was flushed and the output is the single-chunk output.
C5_Witness ==
  /\ lfFlushed
  /\ PatternWasSplit
  /\ replacedLineFeed = replacedLineFeedWin32
  /\ \E i \in 0..(Len(lfInput) - 1) :
       MatchesAt(lfInput, replacedLineFeed, i) /\ (i + 1) \in lfCuts
  /\ lfPushed = SingleChunkOutput(lfInput, replacedLineFeed)

\* The input with every leftmost non-overlapping occurrence of the pattern
\* replaced by the byte 0x0D, scanning from the left.
RECURSIVE ReplaceAll(_, _)
ReplaceAll(s, pattern) ==
  IF s = <<>> THEN <<>>
  ELSE IF MatchesAt(s, pattern, 0)
       THEN <<CR>> \o ReplaceAll(Slice(s, Len(pattern), Len(s)), pattern)
       ELSE <<Head(s)>> \o ReplaceAll(Tail(s), pattern)

ReadSuspended == rd.st = "wait" /\ barrier = "waiting"

\* detach() or attachStream() is called in this step
DetachOrAttach == live' # live

\* C9: whenever detach() or attachStream() is called while a read of
\* asIterator() is suspended waiting for bytes, that read is aborted with
\* StreamDetachedError, stays so aborted until it resumes, resumes with no
\* other error than StreamDetachedError, and does eventually resume: it is
\* neither left pending nor reported as InsufficientBytesError.
C9_DetachFailsSuspendedRead ==
  /\ [][(ReadSuspended /\ DetachOrAttach) => barrier' = "abortedDetach"]_vars
  /\ [][(barrier = "abortedDetach" /\ barrier' # "abortedDetach") =>
         readError' = "StreamDetachedError"]_vars
  /\ (barrier = "abortedDetach") ~> (readError = "StreamDetachedError")

\* a suspended read was failed by detach() and by attachStream()
C9_Witness ==
  /\ readError = "StreamDetachedError"
  /\ pc = "done"
  /\ attached >= 2

\* C10: after detach() returns, or after attachStream() returns with another
\* stream, no data and no end of a previously attached stream changes the
\* buffer or the end flag, whatever fixLineFeeds was for either stream.
C10_DetachedStreamIsSilent ==
  [][\A s \in Sources :
       (s # live /\ (pos'[s] # pos[s] \/ srcEnded'[s] # srcEnded[s])) =>
         (buffer' = buffer /\ end' = end)]_vars

(***************************************************************************)
(* Claims about the end of asIterator.                                     *)
(***************************************************************************)
\* asIterator() terminates in this step
Terminates == pc # "done" /\ pc' = "done"

\* C11: when asIterator() terminates, for whatever reason (clean end of
\* stream, recovery from an invalid header, an error swallowed under noError,
\* an error thrown to the caller), the buffer is empty and the cursor is 0.
C11_TerminationClearsBuffer ==
  [][Terminates => (buffer' = <<>> /\ cursor' = 0)]_vars

\* every frame of the stream has a header size the decoder accepts
ValidHeaders == \A i \in 1..Len(frames) : frames[i].headerSize \in {0, 24}

\* stream 1 ended on a frame boundary
EndedOnBoundary == \E j \in 0..Len(frames) : EndedAfter(j)

\* C12: with noError = false and tryRecover = false, asIterator() ends
\* cleanly at the end of the stream exactly when the stream ended on a frame
\* boundary; an InsufficientBytesError ends it cleanly exactly when it comes
\* from the length read with zero bytes buffered, and is thrown to the caller
\* when it comes from the length read with a byte buffered or from a later
\* read.
C12_CleanEndOnlyOnBoundary ==
  /\ []((pc = "done" /\ srcEnded[1] /\ ~noError /\ ~tryRecover /\ ValidHeaders) =>
          (outcome = "clean" <=> EndedOnBoundary))
  /\ [][(Terminates /\ ~noError' /\ readError' = "InsufficientBytesError") =>
          /\ outcome' = "clean" <=> (pc = "len" /\ Len(buffer) - cursor = 0)
          /\ outcome' # "clean" =>
               (outcome' = "thrown" /\ error' = "InsufficientBytesError")]_vars

\* C13: with noError = true no error reaches the consumer of asIterator():
\* the sequence ends, by a swallowed error or cleanly, with the entries
\* yielded before the failure and no other, and nothing is yielded after it
\* ended.
C13_NoErrorNeverThrows ==
  /\ [](noError => outcome # "thrown")
  /\ [][(Terminates /\ noError') =>
          /\ outcome' \in {"clean", "swallowed"}
          /\ outcome' = "swallowed" <=> error' # "none"
          /\ records' = records /\ emitted' = emitted]_vars
  /\ [][pc = "done" =>
          (pc' = "done" /\ records' = records /\ emitted' = emitted
             /\ outcome' = outcome /\ error' = error)]_vars

\* C13 witness: under noError an entry was yielded, the next read was
\* suspended and failed by a detach, and the sequence ended with that entry.
C13_Witness ==
  /\ noError
  /\ outcome = "swallowed"
  /\ error = "StreamDetachedError"
  /\ Len(records) = 1

(***************************************************************************)
(* Claims about attachStream and detach.                                   *)
(***************************************************************************)
\* C14: detach() leaves the buffer, the cursor, bytesToRead and the end
\* flag as they are; all it does is abort a suspended read and take
\* listeners away: this.input, the iterator and what it yielded are unchanged.
C14_DetachKeepsBuffer ==
  [][Detach =>
       /\ buffer' = buffer /\ cursor' = cursor
       /\ bytesToRead' = bytesToRead /\ end' = end
       /\ input' = input
       /\ listeners' \subseteq listeners
       /\ barrier' = IF barrier = "waiting" THEN "abortedDetach" ELSE barrier
       /\ UNCHANGED <<pc, loc, rd, records, emitted, outcome, error, readError,
                      rolled>>]_vars

\* C14 witness: detach() was called while a read was suspended inside a
\* frame; the bytes received, the cursor and bytesToRead are still there.
C14_Witness ==
  /\ live = 0
  /\ barrier = "abortedDetach"
  /\ buffer # <<>> /\ cursor > 0 /\ bytesToRead > 0
  /\ ~end

\* attachStream() is called in this step
Attaches == attached' # attached

\* C15: right after attachStream(input) returns the buffer is empty, cursor
\* and bytesToRead are 0 and the end flag is false, whatever the state
\* before; and from then on the bytes that enter the buffer are bytes of the
\* attached stream, so that no byte of a previous stream is decoded among
\* the frames of the new one.
C15_AttachStartsClean ==
  /\ [][Attaches => (buffer' = <<>> /\ cursor' = 0 /\ bytesToRead' = 0 /\ ~end')]_vars
  /\ [][(live # 0 /\ ~Attaches /\ Len(buffer') > Len(buffer)) =>
          (pos'[live] # pos[live] \/ srcEnded'[live] # srcEnded[live])]_vars

\* The first half of C15 alone
AttachResets ==
  [][Attaches => (buffer' = <<>> /\ cursor' = 0 /\ bytesToRead' = 0 /\ ~end')]_vars

(***************************************************************************)
(* ADBProcess (part_002): safeRoot and waitForDevice.  Every awaited       *)
(* helper (root, ensureDevice, killServer, waitFor, getDeviceState,        *)
(* reconnect) is one step whose outcome, fulfilled or rejected, is chosen  *)
(* by the environment; sleep() always fulfils and changes nothing.         *)
(***************************************************************************)

\* largest value of the argument attempts
MaxAttempts == 2

\* cap on the number of calls of one helper during one method call
MaxCalls == 4

Called(helper) == [calls EXCEPT ![helper] = @ + 1]

HelperError == "HelperError"

\* A caller invokes safeRoot(n), waitForDevice(n) or ensureDevice(n): let
\* _attempts = attempts; ensureDevice emits 'ensuring-device' before (line 62).
Call(op, n) ==
  /\ adbOp = "none"
  /\ adbOp' = op /\ attempts' = n /\ attemptsLeft' = n
  /\ adbPc' = "loop"
  /\ adbResult' = "pending"
  /\ adbEvents' = IF op = "ensureDevice" THEN <<"ensuring-device">> ELSE <<>>
  /\ UNCHANGED <<deviceState, calls>>
  /\ UNCHANGED <<replacedLineFeed, lfVars, parserVars, raceVars, logcatVars>>

\* what no step of a method changes
AdbArgs ==
  UNCHANGED <<replacedLineFeed, lfVars, parserVars, adbOp, attempts, raceVars, logcatVars>>

\* a step that emits nothing
AdbStep == AdbArgs /\ UNCHANGED adbEvents

\* safeRoot, line 91 and 104: while (_attempts) ... throw new Error(...)
SafeRootLoop ==
  /\ adbOp = "safeRoot" /\ adbPc = "loop"
  /\ IF attemptsLeft # 0
       THEN adbPc' = "root" /\ adbResult' = adbResult
       ELSE adbPc' = "done"
            /\ adbResult' = "Failed to restart adbd with root permissions"
  /\ UNCHANGED <<attemptsLeft, deviceState, calls>>
  /\ AdbStep

\* safeRoot, line 93: await this.root(serial)
SafeRootRoot(ok) ==
  /\ adbOp = "safeRoot" /\ adbPc = "root"
  /\ calls.root < MaxCalls
  /\ calls' = Called("root")
  /\ adbPc' = IF ok THEN "ensure" ELSE "catch"
  /\ UNCHANGED <<attemptsLeft, deviceState, adbResult>>
  /\ AdbStep

\* safeRoot, lines 94-96: await sleep(500); await this.ensureDevice(...); return
SafeRootEnsure(ok) ==
  /\ adbOp = "safeRoot" /\ adbPc = "ensure"
  /\ calls' = Called("ensureDevice")
  /\ IF ok THEN adbPc' = "done" /\ adbResult' = "returned"
           ELSE adbPc' = "catch" /\ adbResult' = adbResult
  /\ UNCHANGED <<attemptsLeft, deviceState>>
  /\ AdbStep

\* safeRoot, lines 97-99: catch (err) { if (_attempts) { await this.killServer()
SafeRootKill(ok) ==
  /\ adbOp = "safeRoot" /\ adbPc = "catch"
  /\ IF attemptsLeft # 0
       THEN /\ calls' = Called("killServer")
            /\ IF ok THEN adbPc' = "recover" /\ adbResult' = adbResult
                     ELSE adbPc' = "done" /\ adbResult' = HelperError
       ELSE adbPc' = "loop" /\ UNCHANGED <<calls, adbResult>>
  /\ UNCHANGED <<attemptsLeft, deviceState>>
  /\ AdbStep

\* safeRoot, line 100: await this.ensureDevice(...) inside the catch block
SafeRootRecover(ok) ==
  /\ adbOp = "safeRoot" /\ adbPc = "recover"
  /\ calls' = Called("ensureDevice")
  /\ IF ok THEN adbPc' = "loop" /\ adbResult' = adbResult
           ELSE adbPc' = "done" /\ adbResult' = HelperError
  /\ UNCHANGED <<attemptsLeft, deviceState>>
  /\ AdbStep

\* waitForDevice, lines 30 and 51: while (_attempts--) ... throw new Error(...)
WaitLoop ==
  /\ adbOp = "waitForDevice" /\ adbPc = "loop"
  /\ attemptsLeft' = attemptsLeft - 1
  /\ IF attemptsLeft # 0
       THEN adbPc' = "waitFor" /\ adbResult' = adbResult
       ELSE adbPc' = "done" /\ adbResult' = "Failed to wait for device"
  /\ UNCHANGED <<deviceState, calls>>
  /\ AdbStep

\* waitForDevice, lines 32-33: await this.waitFor('device', ...); return
WaitFor(ok) ==
  /\ adbOp = "waitForDevice" /\ adbPc = "waitFor"
  /\ calls' = Called("waitFor")
  /\ IF ok THEN adbPc' = "done" /\ adbResult' = "returned"
           ELSE adbPc' = "state" /\ adbResult' = adbResult
  /\ UNCHANGED <<attemptsLeft, deviceState>>
  /\ AdbStep

\* what getDeviceState can report; "undefined" when no device is listed
DeviceStates == {"device", "offline", "unauthorized", "undefined"}

\* a reconnect after every failed attempt, the last one included
AfterStateMut(state, left) ==
  IF state = "device" THEN "return" ELSE "reconnect"

\* waitForDevice, lines 36-37: if (state == 'device') return; if (_attempts)
AfterState(state, left) ==
  IF state = "device" THEN "return"
  ELSE IF left # 0 THEN "reconnect" ELSE "loop"

\* waitForDevice, lines 35-37: let state = await this.getDeviceState(serial)
WaitState(ok, state) ==
  /\ adbOp = "waitForDevice" /\ adbPc = "state"
  /\ calls' = Called("getDeviceState")
  /\ IF ~ok THEN /\ adbPc' = "done" /\ adbResult' = HelperError
                 /\ deviceState' = deviceState
     ELSE /\ deviceState' = state
          /\ IF AfterState(state, attemptsLeft) = "return"
               THEN adbPc' = "done" /\ adbResult' = "returned"
               ELSE adbPc' = AfterState(state, attemptsLeft)
                    /\ adbResult' = adbResult
  /\ UNCHANGED attemptsLeft
  /\ AdbStep

\* waitForDevice, lines 38-47: emit('reconnecting', ...); await this.reconnect(...)
WaitReconnect(ok) ==
  /\ adbOp = "waitForDevice" /\ adbPc = "reconnect"
  /\ adbEvents' = Append(adbEvents, "reconnecting")
  /\ calls' = Called("reconnect")
  /\ IF ~ok THEN adbPc' = "done" /\ adbResult' = HelperError
     ELSE /\ adbPc' = IF deviceState = "offline" THEN "recheck" ELSE "loop"
          /\ adbResult' = adbResult
  /\ UNCHANGED <<attemptsLeft, deviceState>>
  /\ AdbArgs

\* waitForDevice, line 42: if (await this.getDeviceState(serial) == 'device') return
WaitRecheck(ok, state) ==
  /\ adbOp = "waitForDevice" /\ adbPc = "recheck"
  /\ calls' = Called("getDeviceState")
  /\ IF ~ok THEN /\ adbPc' = "done" /\ adbResult' = HelperError
                 /\ deviceState' = deviceState
     ELSE /\ deviceState' = state
          /\ IF state = "device"
               THEN adbPc' = "done" /\ adbResult' = "returned"
               ELSE adbPc' = "loop" /\ adbResult' = adbResult
  /\ UNCHANGED attemptsLeft
  /\ AdbStep

\* a kill-server after every failed round, the last one included
AfterRoundMut(left) == "kill"

\* ensureDevice, line 71: catch (err) { if (_attempts)
AfterRound(left) == IF left # 0 THEN "kill" ELSE "loop"

\* ensureDevice, lines 64-66 and 78: while (_attempts--), emit
\* 'waiting-for-device'; throw new Error(...)
EnsureLoop ==
  /\ adbOp = "ensureDevice" /\ adbPc = "loop"
  /\ attemptsLeft' = attemptsLeft - 1
  /\ IF attemptsLeft # 0
       THEN /\ adbPc' = "waitForDevice" /\ adbResult' = adbResult
            /\ adbEvents' = Append(adbEvents, "waiting-for-device")
       ELSE /\ adbPc' = "done"
            /\ adbResult' = "Failed to ensure that device is online"
            /\ adbEvents' = adbEvents
  /\ UNCHANGED <<deviceState, calls>>
  /\ AdbArgs

\* ensureDevice, lines 67-72: await this.waitForDevice(...); emit
\* 'device-online'; return; or catch, emit 'kill-server'
EnsureWait(ok) ==
  /\ adbOp = "ensureDevice" /\ adbPc = "waitForDevice"
  /\ calls' = Called("waitForDevice")
  /\ IF ok
       THEN /\ adbPc' = "done" /\ adbResult' = "returned"
            /\ adbEvents' = Append(adbEvents, "device-online")
       ELSE /\ adbPc' = AfterRound(attemptsLeft)
            /\ adbResult' = adbResult
            /\ adbEvents' = IF AfterRound(attemptsLeft) = "kill"
                             THEN Append(adbEvents, "kill-server") ELSE adbEvents
  /\ UNCHANGED <<attemptsLeft, deviceState>>
  /\ AdbArgs

\* ensureDevice, lines 73-74: await this.killServer(); await sleep(500)
EnsureKill(ok) ==
  /\ adbOp = "ensureDevice" /\ adbPc = "kill"
  /\ calls' = Called("killServer")
  /\ IF ok THEN adbPc' = "loop" /\ adbResult' = adbResult
           ELSE adbPc' = "done" /\ adbResult' = HelperError
  /\ UNCHANGED <<attemptsLeft, deviceState>>
  /\ AdbStep

(***************************************************************************)
(* BasicADBProcess.waitFor: the promise, the timeout timer, the callback   *)
(* of execFile and the child's 'error' event.                              *)
(***************************************************************************)
\* what a step of waitFor leaves alone
RaceStep ==
  UNCHANGED <<replacedLineFeed, lfVars, parserVars, adbOp, attempts, attemptsLeft,
              adbPc, adbResult, deviceState, calls, adbEvents, logcatVars>>

\* res(...) or rej(...): a promise is settled by the first call only
Settle(with) ==
  /\ promise' = IF promise = "pending" THEN with ELSE promise
  /\ settleCalls' = settleCalls + 1

\* waitFor(state, transport, timeout, serial) runs the executor of its
\* promise: the timer is set when timeout is given, the child is started.
WaitForCalled(timeout) ==
  /\ adbOp = "none"
  /\ adbOp' = "waitFor"
  /\ fullfilled' = FALSE
  /\ IF timeout # 0 THEN tHandle' = "handle" /\ timer' = "pending"
                    ELSE tHandle' = "null" /\ timer' = "none"
  /\ promise' = "pending"
  /\ UNCHANGED <<procKills, settleCalls, raceLog>>
  /\ UNCHANGED <<replacedLineFeed, lfVars, parserVars, attempts, attemptsLeft,
                 adbPc, adbResult, deviceState, calls, adbEvents, logcatVars>>

\* lines 282-287: the timer fires
TimerFires ==
  /\ adbOp = "waitFor" /\ timer = "pending"
  /\ timer' = "fired"
  /\ tHandle' = "null"
  /\ fullfilled' = TRUE
  /\ procKills' = procKills + 1
  /\ Settle("ADBWaitTimeoutError")
  /\ raceLog' = Append(raceLog, [ev |-> "timer", err |-> "ADBWaitTimeoutError"])
  /\ RaceStep

\* lines 291-295 and 301-305: clearTimeout(t), t = null, fullfilled = true
ClearTimer ==
  /\ IF tHandle # "null" THEN timer' = "cleared" /\ tHandle' = "null"
                   ELSE UNCHANGED <<timer, tHandle>>
  /\ fullfilled' = TRUE

\* The callback of execFile without its first line
ExecFileCallbackMut(err) ==
  /\ adbOp = "waitFor"
  /\ \A i \in 1..Len(raceLog) : raceLog[i].ev # "callback"
  /\ raceLog' = Append(raceLog, [ev |-> "callback", err |-> err])
  /\ ClearTimer /\ Settle(IF err # "none" THEN err ELSE "resolved")
  /\ UNCHANGED procKills
  /\ RaceStep

\* lines 289-298: execFile calls back, with an error or without
ExecFileCallback(err) ==
  /\ adbOp = "waitFor"
  /\ \A i \in 1..Len(raceLog) : raceLog[i].ev # "callback"
  /\ raceLog' = Append(raceLog, [ev |-> "callback", err |-> err])
  /\ IF fullfilled
       THEN UNCHANGED <<fullfilled, tHandle, timer, promise, settleCalls>>
       ELSE ClearTimer /\ Settle(IF err # "none" THEN err ELSE "resolved")
  /\ UNCHANGED procKills
  /\ RaceStep

\* lines 299-307: the child emits 'error'
ProcError ==
  /\ adbOp = "waitFor"
  /\ \A i \in 1..Len(raceLog) : raceLog[i].ev # "error"
  /\ raceLog' = Append(raceLog, [ev |-> "error", err |-> "SpawnError"])
  /\ IF fullfilled
       THEN UNCHANGED <<fullfilled, tHandle, timer, promise, settleCalls>>
       ELSE ClearTimer /\ Settle("SpawnError")
  /\ UNCHANGED procKills
  /\ RaceStep

\* An ADBProcess on which no method was called yet; the parser is idle.
InitADB ==
  /\ LfUnused
  /\ replacedLineFeed = replacedLineFeedPosix
  /\ frames \in FairFrames
  /\ stream = EncodeFrom(frames, 1)
  /\ Constructed(TRUE)
  /\ AdbUnused

NextADB ==
  \/ \E op \in {"safeRoot", "waitForDevice", "ensureDevice"}, n \in 0..MaxAttempts :
       Call(op, n)
  \/ SafeRootLoop
  \/ \E ok \in BOOLEAN : SafeRootRoot(ok)
  \/ \E ok \in BOOLEAN : SafeRootEnsure(ok)
  \/ \E ok \in BOOLEAN : SafeRootKill(ok)
  \/ \E ok \in BOOLEAN : SafeRootRecover(ok)
  \/ WaitLoop
  \/ \E ok \in BOOLEAN : WaitFor(ok)
  \/ \E ok \in BOOLEAN, state \in DeviceStates : WaitState(ok, state)
  \/ \E ok \in BOOLEAN : WaitReconnect(ok)
  \/ \E ok \in BOOLEAN, state \in DeviceStates : WaitRecheck(ok, state)
  \/ EnsureLoop
  \/ \E ok \in BOOLEAN : EnsureWait(ok)
  \/ \E ok \in BOOLEAN : EnsureKill(ok)
  \/ \E timeout \in {0, 60000} : WaitForCalled(timeout)
  \/ TimerFires
  \/ \E err \in {"none", "ExecError"} : ExecFileCallback(err)
  \/ ProcError

SpecADB == InitADB /\ [][NextADB]_vars

(***************************************************************************)
(* Claims about safeRoot and waitForDevice                                 *)
(***************************************************************************)

\* C16: safeRoot(attempts) invokes root at most attempts times: once attempts
\* rounds have failed and been recovered from, the loop is left and the call
\* rejects with 'Failed to restart adbd with root permissions'.
C16_SafeRootBounded ==
  adbOp = "safeRoot" =>
    /\ calls.root <= attempts
    /\ (adbPc = "loop" /\ calls.root = attempts) => attemptsLeft = 0

\* a reconnect is about to be called
Reconnects == calls'.reconnect # calls.reconnect

\* C17: waitForDevice(attempts), attempts >= 0, calls waitFor at most attempts
\* times and reconnect at most attempts - 1 times (never when attempts is 0,
\* never after the last failed attempt); it returns only after a waitFor
\* succeeded or getDeviceState reported 'device'; when it settles otherwise
\* and no helper threw, it rejects with 'Failed to wait for device', after
\* exactly attempts failed waitFor calls.
C17_WaitForDeviceBounded ==
  /\ [](adbOp = "waitForDevice" =>
          /\ calls.waitFor <= attempts
          /\ calls.reconnect <= (IF attempts = 0 THEN 0 ELSE attempts - 1)
          /\ adbResult \in {"pending", "returned", HelperError, "Failed to wait for device"}
          /\ adbPc = "done" <=> adbResult # "pending"
          /\ adbResult = "Failed to wait for device" => calls.waitFor = attempts)
  /\ [][(adbOp = "waitForDevice" /\ Reconnects) =>
          (attemptsLeft > 0 /\ calls.waitFor < attempts)]_vars
  /\ [][(adbOp = "waitForDevice" /\ adbResult' = "returned" /\ adbResult # "returned") =>
          \/ calls'.waitFor # calls.waitFor
          \/ calls'.getDeviceState # calls.getDeviceState /\ deviceState' = "device"]_vars

\* All attempts failed with the device offline: one reconnect between them.
C17_Witness ==
  /\ adbOp = "waitForDevice" /\ attempts = 2
  /\ adbResult = "Failed to wait for device"
  /\ calls.waitFor = 2 /\ calls.reconnect = 1 /\ deviceState = "offline"

(***************************************************************************)
(* Claims about the buffer under interleavings of reads and stream events  *)
(***************************************************************************)

\* C19: the cursor never exceeds the length of the buffer, whatever the
\* interleaving of data arrivals, attachStream, detach and resumptions of
\* reads.
C19_CursorWithinBuffer == cursor <= Len(buffer)

\* the read suspended in waitFor('readable') is resumed after a notify
ResumesRead == rd.st = "wait" /\ barrier = "notified" /\ barrier' = "idle"

\* onData wakes the suspended read
WakesRead == barrier = "waiting" /\ barrier' = "notified"

\* C20: every successful read(n) returns exactly n bytes and advances the
\* cursor by n, whether it returns at once or after its wait; onData wakes a
\* suspended read(n) only when at least n bytes are available.
C20_ReadReturnsExactly ==
  /\ [](rd.st = "data" => Len(rd.data) = rd.size)
  /\ [][ResumesRead => (Len(buffer) - cursor >= rd.size)]_vars
  /\ [][WakesRead => (Len(buffer') - cursor' >= rd.size)]_vars

\* C18: at most one read is suspended on the 'readable' event at a time, and
\* while one is, bytesToRead is the size that read asked for.
C18_OneOutstandingWait ==
  /\ ~(barrier = "waiting" /\ second.barrier = "waiting")
  /\ barrier = "waiting" => bytesToRead = rd.size
  /\ second.barrier = "waiting" => bytesToRead = second.rd.size

(***************************************************************************)
(* Claims about the errors of read                                         *)
(***************************************************************************)
\* the sizes asIterator asks read for at fixed places
ReadSizes == {1, 2, 4}

\* the waiter of the suspended read is settled, the read not yet resumed
ReadSettled == rd.st = "wait" /\ barrier \in {"notified", "abortedEnd", "abortedDetach"}

\* the stream has ended without n bytes being available
EndedShort(n) == end /\ Len(buffer) - cursor < n

\* C21: read(n) fails with InsufficientBytesError exactly when the stream has
\* ended without n bytes being available: at once when end is set at the
\* call, or at the resumption when the end came while it was suspended (a
\* read stays suspended only while fewer than n bytes are there); the
\* failing read leaves cursor and buffer alone, and a wait aborted by detach
\* fails with StreamDetachedError, never with InsufficientBytesError.
C21_InsufficientBytesExactlyAtEnd ==
  /\ \A n \in ReadSizes :
       LET r == read(M, "len", n)
       IN  /\ r.rd.st = "InsufficientBytesError" <=> EndedShort(n)
           /\ r.rd.st = "InsufficientBytesError" => (r.buffer = buffer /\ r.cursor = cursor)
  /\ ReadSettled =>
       LET r == Resumed(M)
       IN  /\ r.rd.st = "InsufficientBytesError" <=> barrier = "abortedEnd"
           /\ r.rd.st # "data" => (r.buffer = buffer /\ r.cursor = cursor)
           /\ barrier = "abortedDetach" => r.rd.st = "StreamDetachedError"
  /\ (rd.st = "wait" /\ barrier = "waiting") => Len(buffer) - cursor < rd.size

\* A read failed at the end of the stream and left the bytes of the buffer
\* there.
C21_Witness ==
  /\ pc = "done" /\ readError = "InsufficientBytesError" /\ outcome = "thrown"
  /\ end /\ cursor > 0 /\ Len(buffer) > cursor

(***************************************************************************)
(* Claims about what the LineFeedTransform holds back (SpecLF)             *)
(***************************************************************************)
\* the bytes of the input handed to _transform so far
LfProcessed == Slice(lfInput, 0, lfPos)

IsPrefixOf(p, s) == Len(p) <= Len(s) /\ \A i \in 1..Len(p) : p[i] = s[i]

IsSuffixOf(p, s) ==
  Len(p) <= Len(s) /\ \A i \in 1..Len(p) : p[i] = s[Len(s) - Len(p) + i]

\* C22: between two calls lastSuspiciousBytes is empty, or a proper prefix of
\* the corrupted sequence, at least one byte and at most its length minus
\* one, that is the tail of the input processed so far.
C22_HeldBytesArePatternPrefix ==
  \/ lastSuspiciousBytes = <<>>
  \/ /\ Len(lastSuspiciousBytes) >= 1
     /\ Len(lastSuspiciousBytes) <= Len(replacedLineFeed) - 1
     /\ IsPrefixOf(lastSuspiciousBytes, replacedLineFeed)
     /\ IsSuffixOf(lastSuspiciousBytes, LfProcessed)
     /\ ~lfFlushed

\* Two bytes of the Win32 sequence are held across a chunk boundary, behind
\* a byte that went through.
C22_Witness ==
  /\ replacedLineFeed = replacedLineFeedWin32
  /\ lastSuspiciousBytes = <<CR, CR>>
  /\ lfPos >= 3 /\ lfPos < Len(lfInput)
  /\ lfPushed # <<>>

\* The number of leftmost non-overlapping occurrences of the pattern in s,
\* the ones the while loop of _transform replaces.
RECURSIVE Occurrences(_, _)
Occurrences(s, pattern) ==
  IF s = <<>> THEN 0
  ELSE IF MatchesAt(s, pattern, 0)
       THEN 1 + Occurrences(Slice(s, Len(pattern), Len(s)), pattern)
       ELSE Occurrences(Tail(s), pattern)

\* _flush runs
Flushes == ~lfFlushed /\ lfFlushed'

\* C23: _flush pushes the held-back bytes as they are, after everything else,
\* and holds nothing afterwards; then every input byte is accounted for: the
\* output is as long as the input less (pattern length - 1) bytes for every
\* replaced occurrence.
C23_FlushAccountsForEveryByte ==
  /\ [][Flushes => (lfPushed' = lfPushed \o lastSuspiciousBytes
                    /\ lastSuspiciousBytes' = <<>>)]_vars
  /\ [](lfFlushed =>
          /\ lastSuspiciousBytes = <<>>
          /\ Len(lfPushed) = Len(lfInput)
               - (Len(replacedLineFeed) - 1) * Occurrences(lfInput, replacedLineFeed))

\* An input with one occurrence and the start of another at its end: the
\* flush pushed the two held bytes last.
C23_Witness ==
  /\ lfFlushed
  /\ replacedLineFeed = replacedLineFeedWin32
  /\ Occurrences(lfInput, replacedLineFeed) = 1
  /\ Len(lfInput) = 5 /\ lfInput[4] = CR /\ lfInput[5] = CR
  /\ lfPushed = <<CR, CR, CR>>

(***************************************************************************)
(* Claims about the fields of the entries (SpecDecode)                     *)
(***************************************************************************)
\* the first non-zero byte of b, Undefined when there is none
RECURSIVE FirstNonZero(_)
FirstNonZero(b) ==
  IF b = <<>> THEN Undefined
  ELSE IF Head(b) # 0 THEN Head(b) ELSE FirstNonZero(Tail(b))

\* C24: every yielded entry has a priority, a non-zero byte, the first
\* non-zero byte of its frame at or after the start of the payload, whatever
\* the declared length and the number of zero bytes before it.
C24_PriorityIsNonZeroByte ==
  \A i \in 1..Len(records) :
    /\ records[i].priority \in 1..255
    /\ i <= Len(frames) =>
         records[i].priority = FirstNonZero(Zeros(frames[i].pad) \o frames[i].payload)

\* b without its first n bytes
RECURSIVE Drop(_, _)
Drop(b, n) == IF n <= 0 \/ b = <<>> THEN b ELSE Drop(Tail(b), n - 1)

\* the bytes of b before its first zero byte
RECURSIVE UpToZero(_)
UpToZero(b) ==
  IF b = <<>> \/ Head(b) = 0 THEN <<>> ELSE <<Head(b)>> \o UpToZero(Tail(b))

\* b without its last byte
Front(b) == IF b = <<>> THEN <<>> ELSE SubSeq(b, 1, Len(b) - 1)

TagBytes(payload, priorityIndex) == UpToZero(Drop(payload, priorityIndex))

\* the bytes behind the separator, less one terminating zero byte; nothing
\* when the separator is the last byte or is missing
MsgBytes(payload, priorityIndex) ==
  LET separatorIndex == priorityIndex + Len(TagBytes(payload, priorityIndex))
      rest == Drop(payload, separatorIndex + 1)
  IN  IF separatorIndex >= Len(payload) - 1 THEN <<>>
      ELSE IF payload[Len(payload)] = 0 THEN Front(rest) ELSE rest

\* the entry yielded last
LastRecord == records[Len(records)]

\* C25: the tag of a yielded entry is the payload from priorityIndex up to
\* the first zero byte at or after it (or to the end), so it holds no zero;
\* the msg is what follows that separator, less exactly one trailing zero
\* byte when the payload ends in one, and is empty when the separator is the
\* last byte or is missing; 04 't' 00 gives priority 4, tag 't', msg ''.
C25_TagAndMsgSplit ==
  pc = "yielded" =>
       /\ LastRecord.tag = toString(TagBytes(loc.payload, loc.priorityIndex))
       /\ LastRecord.msg = toString(MsgBytes(loc.payload, loc.priorityIndex))
       /\ \A i \in 1..Len(LastRecord.tag) : LastRecord.tag[i] # 0
       /\ loc.payload = <<4, 116, 0>> =>
            (LastRecord.priority = 4 /\ LastRecord.tag = <<116>> /\ LastRecord.msg = <<>>)

\* An entry whose payload came behind padding and ends in a zero byte: the
\* tag stops at the separator and the msg lost the terminator.
C25_Witness ==
  /\ pc = "yielded"
  /\ loc.priorityIndex > 1
  /\ loc.payload[Len(loc.payload)] = 0
  /\ LastRecord.tag = <<116>> /\ LastRecord.msg = <<109>>

(***************************************************************************)
(* Claims about the order of the entries                                   *)
(***************************************************************************)
\* s is t or t with one more element at its end
GrowsByOne(s, t) ==
  \/ s = t
  \/ Len(s) = Len(t) + 1 /\ SubSeq(s, 1, Len(t)) = t

\* the i-th entry is the one frame i stands for (the id left aside)
FromFrame(i) == records[i] = [EntryOf(frames[i], i) EXCEPT !.id = records[i].id]

\* C26: an entry is emitted to the 'entry' listeners when it is yielded, once:
\* the entries emitted are always the entries yielded, both only grow at
\* their end, one entry at a time, and the entries of well-formed frames come
\* in the order the frames arrived in.
C26_EmittedIsYieldedInOrder ==
  /\ [](emitted = records)
  /\ [][GrowsByOne(records', records) /\ GrowsByOne(emitted', emitted)]_vars
  /\ [](\A i \in 1..Len(records) :
          (i <= Len(frames) /\ \A k \in 1..i : WellFormed(frames[k])) => FromFrame(i))

\* Two different entries were emitted and yielded, the first frame's first.
C26_Witness ==
  /\ Len(records) = 2 /\ Len(emitted) = 2
  /\ emitted[1] # emitted[2]
  /\ FromFrame(1) /\ FromFrame(2)
  /\ pc = "yielded"

\* what asIterator yields and how it ends when it is pulled only after the
\* bytes that stream 1 has emitted so far, and the end, were delivered
LateRun == SingleChunkRun(Slice(stream, 0, pos[1]))

IsPrefix(s, t) == Len(s) <= Len(t) /\ SubSeq(t, 1, Len(s)) = s

\* C27: with one source and one consumer the entries yielded and the way the
\* sequence ends do not depend on how the pulls fall between the chunks and
\* the end: whenever asIterator has ended, and whatever it has yielded
\* before, is what it yields and how it ends when it is pulled only after
\* everything was delivered.
C27_OutcomeIndependentOfInterleaving ==
  /\ IsPrefix(records, LateRun.records)
  /\ pc = "done" =>
       /\ records = LateRun.records
       /\ outcome = LateRun.outcome
       /\ error = LateRun.error

\* The consumer pulled ahead of the data: one entry is yielded, the read for
\* the next frame is suspended and the frame has not arrived.
C27_Witness ==
  /\ barrier = "waiting" /\ pc = "len"
  /\ Len(records) = 1 /\ Len(frames) = 2
  /\ pos[1] = FrameEnd(1) /\ ~srcEnded[1]
  /\ records = SubSeq(LateRun.records, 1, 1)

(***************************************************************************)
(* Claims about progress (ProgressSpec)                                    *)
(***************************************************************************)
\* C28: no wake-up is lost.  A read is never left suspended with the bytes it
\* asked for in the buffer, nor after the source has ended; a read whose wait
\* was settled does resume; and once the source has ended, asIterator, its
\* consumer pulling on, ends and stays ended with no read suspended.
C28_NoLostWakeup ==
  /\ [](barrier = "waiting" => (Len(buffer) - cursor < rd.size /\ ~srcEnded[1]))
  /\ (rd.st = "wait" /\ barrier = "notified") ~> (rd.st # "wait" \/ barrier = "waiting")
  /\ (rd.st = "wait" /\ barrier = "abortedEnd") ~> (readError = "InsufficientBytesError")
  /\ srcEnded[1] ~> [](pc = "done" /\ barrier # "waiting" /\ outcome \in {"clean", "thrown", "swallowed"})

\* The read of a suspended consumer was woken by the end of the source, with
\* a part of what it asked for in the buffer.
C28_Witness ==
  /\ rd.st = "wait" /\ barrier = "abortedEnd" /\ srcEnded[1]
  /\ Len(buffer) - cursor > 0
  /\ rd.size = 4

(***************************************************************************)
(* Claims about ensureDevice                                               *)
(***************************************************************************)
\* how often the event e was emitted
RECURSIVE CountOf(_, _)
CountOf(q, e) ==
  IF q = <<>> THEN 0 ELSE (IF Head(q) = e THEN 1 ELSE 0) + CountOf(Tail(q), e)

LastEvent == adbEvents[Len(adbEvents)]

\* C29: ensureDevice(attempts) emits 'ensuring-device' once, first; it runs
\* at most attempts rounds, each one 'waiting-for-device' and then one call
\* of waitForDevice; 'kill-server' and killServer come only after a failed
\* round that is not the last, at most attempts - 1 times; 'device-online'
\* comes only after a successful waitForDevice and the call then returns;
\* after attempts failed rounds the call rejects with 'Failed to ensure that
\* device is online'.
C29_EnsureDeviceRounds ==
  /\ [](adbOp = "ensureDevice" =>
          /\ adbEvents # <<>> /\ adbEvents[1] = "ensuring-device"
          /\ CountOf(adbEvents, "ensuring-device") = 1
          /\ CountOf(adbEvents, "waiting-for-device") <= attempts
          /\ calls.waitForDevice <= CountOf(adbEvents, "waiting-for-device")
          /\ CountOf(adbEvents, "kill-server") <= (IF attempts = 0 THEN 0 ELSE attempts - 1)
          /\ calls.killServer <= CountOf(adbEvents, "kill-server")
          /\ CountOf(adbEvents, "device-online") = (IF adbResult = "returned" THEN 1 ELSE 0)
          /\ adbResult = "returned" => LastEvent = "device-online"
          /\ adbResult = "Failed to ensure that device is online" =>
               (calls.waitForDevice = attempts /\ CountOf(adbEvents, "device-online") = 0)
          /\ (adbPc = "done" /\ calls.waitForDevice = attempts /\ adbResult # "returned") =>
               adbResult = "Failed to ensure that device is online")
  /\ [][(adbOp = "ensureDevice" /\ calls'.waitForDevice # calls.waitForDevice) =>
          (LastEvent = "waiting-for-device"
           /\ calls'.waitForDevice = CountOf(adbEvents, "waiting-for-device"))]_vars
  /\ [][(adbOp = "ensureDevice" /\ calls'.killServer # calls.killServer) =>
          (LastEvent = "kill-server" /\ attemptsLeft > 0
           /\ calls.waitForDevice < attempts)]_vars
  /\ [][(adbOp = "ensureDevice" /\ Len(adbEvents') > Len(adbEvents)
         /\ adbEvents'[Len(adbEvents')] = "device-online") =>
          (calls'.waitForDevice # calls.waitForDevice /\ adbResult' = "returned")]_vars

\* Two rounds failed, with one kill-server between them, and the call
\* rejected.
C29_Witness ==
  /\ adbOp = "ensureDevice" /\ attempts = 2
  /\ adbResult = "Failed to ensure that device is online"
  /\ adbEvents = <<"ensuring-device", "waiting-for-device", "kill-server",
                   "waiting-for-device">>
  /\ calls.killServer = 1

(***************************************************************************)
(* Claims about BasicADBProcess.waitFor                                    *)
(***************************************************************************)
\* what the promise holds when the event e was the first one
OutcomeOf(e) == IF e.err = "none" THEN "resolved" ELSE e.err

\* C30: of the timer, the callback of execFile and the child's 'error', the
\* one that happens first decides alone.  The timer first: the child is
\* killed and the promise rejects with ADBWaitTimeoutError.  The callback or
\* 'error' first: the timer is cleared and never fires, waitFor never kills
\* the child, the promise settles with that result.  The later events change
\* nothing, and res / rej is called exactly once.
C30_FirstEventDecides ==
  /\ []((adbOp = "waitFor" /\ raceLog = <<>>) =>
          (promise = "pending" /\ settleCalls = 0 /\ procKills = 0))
  /\ []((adbOp = "waitFor" /\ raceLog # <<>>) =>
          /\ settleCalls = 1
          /\ promise = OutcomeOf(raceLog[1])
          /\ fullfilled /\ tHandle = "null" /\ timer # "pending"
          /\ raceLog[1].ev = "timer" =>
               (promise = "ADBWaitTimeoutError" /\ procKills = 1 /\ timer = "fired")
          /\ raceLog[1].ev # "timer" =>
               (procKills = 0 /\ timer \in {"cleared", "none"}))
  /\ [][(adbOp = "waitFor" /\ raceLog # <<>>) =>
          UNCHANGED <<fullfilled, tHandle, timer, promise, procKills, settleCalls>>]_vars

\* The timer fired first; the callback (with the error of the killed child)
\* and 'error' came later and changed nothing.
C30_Witness ==
  /\ adbOp = "waitFor" /\ Len(raceLog) = 3
  /\ raceLog[1].ev = "timer" /\ raceLog[2] = [ev |-> "callback", err |-> "ExecError"]
  /\ promise = "ADBWaitTimeoutError" /\ procKills = 1

(***************************************************************************)
(* LogcatProcess (part_000:18-119): start, the 'error' and 'exit'          *)
(* listeners start() registers on the child, _destroy and destroy.         *)
(***************************************************************************)
MaxChildren == 3
MaxErrors == 1
MaxWaiters == 2

\* the fields of the LogcatProcess and its children as one value
L == [proc |-> proc, procErr |-> procErr, children |-> children,
      startResult |-> startResult, exitWaiters |-> exitWaiters]

SetL(next) ==
  \E l \in {next} :
    /\ proc' = l.proc /\ procErr' = l.procErr /\ children' = l.children
    /\ startResult' = l.startResult /\ exitWaiters' = l.exitWaiters
    /\ UNCHANGED <<replacedLineFeed, lfVars, parserVars, adbOp, attempts, attemptsLeft,
                   adbPc, adbResult, deviceState, calls, adbEvents, raceVars>>

\* spawn(binaryName, ...) (lines 44-46, 53-55): a running child
Spawned == [running |-> TRUE, killed |-> FALSE, stdinEnded |-> FALSE, errors |-> 0]

\* proc.kill() where the signal is delivered: `killed` is set; a child that
\* has exited has no handle and kill() changes nothing
kill(c) == IF c.running THEN [c EXCEPT !.killed = TRUE] ELSE c

\* lines 80-95: start(serial)
start(l) ==
  IF l.proc # 0
    THEN [l EXCEPT !.startResult = "AssertionError"]
    ELSE [l EXCEPT !.children = Append(@, Spawned),
                   !.proc = Len(l.children) + 1,
                   !.procErr = "none",
                   !.startResult = "spawned"]

\* lines 97-105: _destroy(exited) works on this.proc, whichever child that is
destroyProc(l, exited) ==
  IF l.proc = 0 THEN l
  ELSE LET c  == [l.children[l.proc] EXCEPT !.stdinEnded = TRUE]
           c2 == IF ~exited /\ ~c.killed THEN kill(c) ELSE c
       IN  [l EXCEPT !.children[l.proc] = c2,
                     !.exitWaiters = IF l.procErr # "none" THEN 0 ELSE @,
                     !.proc = 0]

\* lines 84-89: the 'error' listener of child i
onProcError(l, i) ==
  destroyProc([l EXCEPT !.children[i].errors = @ + 1, !.procErr = "Error"], FALSE)

\* lines 90-93: the 'exit' listener of child i (child i has exited);
\* notify('exit') releases every destroy() that waits
onProcExit(l, i) ==
  destroyProc([l EXCEPT !.children[i].running = FALSE, !.exitWaiters = 0], TRUE)

\* lines 110-118: destroy() up to its await
destroy(l) ==
  IF l.proc = 0 THEN l
  ELSE [l EXCEPT !.children[l.proc] = kill(@),
                 !.exitWaiters = IF @ < MaxWaiters THEN @ + 1 ELSE @]

LogcatStart ==
  /\ proc # 0 \/ Len(children) < MaxChildren
  /\ SetL(start(L))

ChildError(i) ==
  /\ children[i].running /\ children[i].errors < MaxErrors
  /\ SetL(onProcError(L, i))

ChildExit(i) ==
  /\ children[i].running
  /\ SetL(onProcExit(L, i))

LogcatDestroy ==
  /\ SetL(destroy(L))

NextLogcat ==
  \/ LogcatStart
  \/ \E i \in 1..Len(children) : ChildError(i)
  \/ \E i \in 1..Len(children) : ChildExit(i)
  \/ LogcatDestroy

\* A LogcatProcess after its constructor (lines 34-38): proc is not set, no
\* child exists; nothing else runs.
InitLogcat ==
  /\ LfUnused
  /\ replacedLineFeed = replacedLineFeedPosix
  /\ ParserUnused
  /\ AdbUnused

SpecLogcat == InitLogcat /\ [][NextLogcat]_vars

\* C31: whenever proc is null, no child this LogcatProcess spawned is still
\* running without having been killed: an 'error' or 'exit' event of an
\* earlier child never takes a later child out of proc.
C31_NullProcLeavesNoLiveChild ==
  proc = 0 => \A i \in 1..Len(children) : children[i].running => children[i].killed

====
